---- MODULE Spec2Model ----
(***************************************************************************)
(* A model of the N-Quads streaming reader of package nquads (iand/nquads). *)
(* The Reader consumes a rune stream through a bufio.Reader, lexes IRIs,    *)
(* blank nodes and literals, and assembles one quad per call to Next.       *)
(*                                                                          *)
(* Runes are modelled as code points (integers), strings and the scratch    *)
(* buffer as sequences of code points.  The source is an in-memory stream   *)
(* of valid code points whose only failure is end of input.                 *)
(***************************************************************************)
EXTENDS Integers, Sequences, FiniteSets, TLC

VARIABLES
    input,          \* the runes of the underlying io.Reader (never changes)
    rpos,           \* bufio.Reader: number of runes already read
    lastRuneSize,   \* bufio.Reader: 1 when UnreadRune is allowed, else -1
    line,           \* Reader.line
    column,         \* Reader.column
    buf,            \* Reader.buf, the scratch buffer
    err,            \* Reader.err
    q,              \* Reader.q
    ret,            \* the value returned by the last call to Next
    calls,          \* number of calls to Next made so far
    quads,          \* the quads the input was rendered from (test case field)
    tc              \* the term the input was written around (test case)

vars == <<input, rpos, lastRuneSize, line, column, buf, err, q, ret, calls, quads, tc>>

(***************************************************************************)
(* Code points of the characters the lexers name.                           *)
(***************************************************************************)
Ch == [ bs |-> 8, tab |-> 9, lf |-> 10, ff |-> 12, cr |-> 13, space |-> 32,
        dquote |-> 34, hash |-> 35, comma |-> 44, minus |-> 45, dot |-> 46,
        slash |-> 47, zero |-> 48, one |-> 49, nine |-> 57, colon |-> 58,
        lt |-> 60, gt |-> 62, at |-> 64,
        A |-> 65, F |-> 70, U |-> 85, Z |-> 90, backslash |-> 92,
        caret |-> 94, underscore |-> 95, backtick |-> 96,
        a |-> 97, b |-> 98, c |-> 99, d |-> 100, e |-> 101, f |-> 102,
        g |-> 103, l |-> 108, n |-> 110, o |-> 111, p |-> 112, r |-> 114,
        s |-> 115, t |-> 116, u |-> 117, x |-> 120, z |-> 122,
        lbrace |-> 123, pipe |-> 124, rbrace |-> 125 ]

(***************************************************************************)
(* Errors.  A nil error, a bare (unwrapped) error value, or a *ParseError   *)
(* wrapping one of the package's error kinds with line and column.          *)
(***************************************************************************)
ErrUnexpectedCharacter == "ErrUnexpectedCharacter"
ErrInvalidCodepointExpression == "ErrInvalidCodepointExpression"
ErrUnexpectedEOF == "ErrUnexpectedEOF"
ErrUnterminatedQuad == "ErrUnterminatedQuad"
ErrRelativeIRI == "ErrRelativeIRI"

\* errors of the standard library that reach the Reader
EOF == "io.EOF"
ErrInvalidUnreadRune == "bufio.ErrInvalidUnreadRune"
nil == "nil"

NilErr == [ParseError |-> FALSE, Err |-> nil, Line |-> 0, Column |-> 0]

\* an error value passed on as it is, without position
bare(e) == [ParseError |-> FALSE, Err |-> e, Line |-> 0, Column |-> 0]

\* a ParseError that counts lines from zero
wrap_lineFromZero(c, e) ==
    [ParseError |-> TRUE, Err |-> e, Line |-> c.line - 1, Column |-> c.column]

\* ParseError{Line: r.line, Column: r.column, Err: err}
wrap(c, e) == [ParseError |-> TRUE, Err |-> e, Line |-> c.line, Column |-> c.column]

(***************************************************************************)
(* Terms and quads.                                                         *)
(***************************************************************************)
UnknownTerm == "UnknownTerm"
IRITerm == "IRITerm"
BlankTerm == "BlankTerm"
LiteralTerm == "LiteralTerm"

\* rdf.Term{}
ZeroTerm == [Kind |-> UnknownTerm, Value |-> <<>>, Language |-> <<>>, Datatype |-> <<>>]

IRI(v) == [Kind |-> IRITerm, Value |-> v, Language |-> <<>>, Datatype |-> <<>>]
Blank(v) == [Kind |-> BlankTerm, Value |-> v, Language |-> <<>>, Datatype |-> <<>>]
Literal(v) == [Kind |-> LiteralTerm, Value |-> v, Language |-> <<>>, Datatype |-> <<>>]
LiteralWithLanguage(v, lang) ==
    [Kind |-> LiteralTerm, Value |-> v, Language |-> lang, Datatype |-> <<>>]
LiteralWithDatatype(v, dt) ==
    [Kind |-> LiteralTerm, Value |-> v, Language |-> <<>>, Datatype |-> dt]

\* Quad{}
ZeroQuad == [S |-> ZeroTerm, P |-> ZeroTerm, O |-> ZeroTerm, G |-> ZeroTerm]

(***************************************************************************)
(* Character classifiers.                                                   *)
(***************************************************************************)
isNumeral(r) == r >= Ch.zero /\ r <= Ch.nine

isAlpha(r) == (r >= Ch.A /\ r <= Ch.Z) \/ (r >= Ch.a /\ r <= Ch.z)

\* a white space test that takes a newline for white space
isSpace_orNewline(r) == r = Ch.space \/ r = Ch.tab \/ r = Ch.lf

isSpace(r) == r = Ch.space \/ r = Ch.tab

isPnCharsBase(r) ==
    \/ isAlpha(r)
    \/ (r >= 192 /\ r <= 214)          \* 0x00C0 - 0x00D6
    \/ (r >= 216 /\ r <= 246)          \* 0x00D8 - 0x00F6
    \/ (r >= 248 /\ r <= 767)          \* 0x00F8 - 0x02FF
    \/ (r >= 880 /\ r <= 893)          \* 0x0370 - 0x037D
    \/ (r >= 895 /\ r <= 8191)         \* 0x037F - 0x1FFF
    \/ (r >= 8204 /\ r <= 8205)        \* 0x200C - 0x200D
    \/ (r >= 8304 /\ r <= 8591)        \* 0x2070 - 0x218F
    \/ (r >= 11264 /\ r <= 12271)      \* 0x2C00 - 0x2FEF
    \/ (r >= 12289 /\ r <= 55295)      \* 0x3001 - 0xD7FF
    \/ (r >= 63744 /\ r <= 64975)      \* 0xF900 - 0xFDCF
    \/ (r >= 65008 /\ r <= 65533)      \* 0xFDF0 - 0xFFFD
    \/ (r >= 65536 /\ r <= 983039)     \* 0x10000 - 0xEFFFF

isPnCharsU(r) == r = Ch.underscore \/ r = Ch.colon \/ isPnCharsBase(r)

isPnChars(r) ==
    \/ r = Ch.minus \/ r = 183         \* '-' or 0x00B7
    \/ isNumeral(r)
    \/ isPnCharsU(r)
    \/ (r >= 768 /\ r <= 879)          \* 0x0300 - 0x036F
    \/ (r >= 8255 /\ r <= 8256)        \* 0x203F - 0x2040

\* an absoluteness test that accepts every IRI
isAbsoluteIRI_always(s) == TRUE

\* strings.Contains(s, ":")
isAbsoluteIRI(s) == \E i \in 1..Len(s) : s[i] = Ch.colon

(***************************************************************************)
(* The rune cursor.  A cursor c is the part of the Reader the lexers work   *)
(* on: [rpos, lastRuneSize, line, column, buf].                             *)
(***************************************************************************)

\* bufio.Reader.ReadRune: the next rune, or io.EOF; records whether the rune
\* can be pushed back
ReadRune(c) ==
    IF c.rpos >= Len(input)
    THEN [c |-> [c EXCEPT !.lastRuneSize = -1], r1 |-> 0, err |-> EOF]
    ELSE [c |-> [c EXCEPT !.rpos = c.rpos + 1, !.lastRuneSize = 1],
          r1 |-> input[c.rpos + 1], err |-> nil]

\* bufio.Reader.UnreadRune: pushes back the rune of the last ReadRune; fails
\* when the last operation on the source was not a successful ReadRune
UnreadRune(c) ==
    IF c.lastRuneSize < 0 \/ c.rpos < c.lastRuneSize
    THEN [c |-> c, err |-> ErrInvalidUnreadRune]
    ELSE [c |-> [c EXCEPT !.rpos = c.rpos - c.lastRuneSize, !.lastRuneSize = -1],
          err |-> nil]

\* the first byte of the UTF-8 encoding of rune r
FirstByte(r) ==
    IF r < 128 THEN r
    ELSE IF r < 2048 THEN 192 + (r \div 64)
    ELSE IF r < 65536 THEN 224 + (r \div 4096)
    ELSE 240 + (r \div 262144)

\* number of bytes of the UTF-8 encoding of rune r
RuneLen(r) == IF r < 128 THEN 1 ELSE IF r < 2048 THEN 2 ELSE IF r < 65536 THEN 3 ELSE 4

\* bufio.Reader.Peek(2): the next two bytes without consuming them, io.EOF
\* when fewer than two bytes are left; a pushback is no longer possible
\* afterwards.  next is the sequence of the two bytes (<<>> on io.EOF).
Peek2(c) ==
    LET c1 == [c EXCEPT !.lastRuneSize = -1]
        n  == Len(input) - c.rpos
    IN  IF n = 0 THEN [c |-> c1, next |-> <<>>, err |-> EOF]
        ELSE IF RuneLen(input[c.rpos + 1]) >= 2
        THEN [c |-> c1, next |-> <<FirstByte(input[c.rpos + 1]), 128>>, err |-> nil]
        ELSE IF n = 1 THEN [c |-> c1, next |-> <<>>, err |-> EOF]
        ELSE [c |-> c1,
              next |-> <<input[c.rpos + 1], FirstByte(input[c.rpos + 2])>>,
              err |-> nil]

\* readRune: after r.r.UnreadRune() of the rune y.r1 that followed a \r
readRune_unread(y, u) ==
    IF u.err # nil
    THEN [c |-> u.c, r1 |-> y.r1, err |-> u.err]
    ELSE [c |-> [u.c EXCEPT !.column = u.c.column + 1], r1 |-> Ch.cr, err |-> nil]

\* readRune: after the ReadRune that follows a \r, whose result is y
readRune_cr(y) ==
    IF y.err = nil
    THEN IF y.r1 # Ch.lf
         THEN readRune_unread(y, UnreadRune(y.c))
         ELSE [c |-> [y.c EXCEPT !.column = y.c.column + 1], r1 |-> y.r1, err |-> nil]
    ELSE [c |-> [y.c EXCEPT !.column = y.c.column + 1], r1 |-> y.r1, err |-> y.err]

\* a readRune that does not fold \r\n
readRune_first_noFold(x) ==
    [c |-> [x.c EXCEPT !.column = x.c.column + 1], r1 |-> x.r1, err |-> x.err]

\* readRune: after the first ReadRune, whose result is x
readRune_first(x) ==
    IF x.r1 = Ch.cr
    THEN readRune_cr(ReadRune(x.c))
    ELSE [c |-> [x.c EXCEPT !.column = x.c.column + 1], r1 |-> x.r1, err |-> x.err]

\* Reader.readRune: reads one rune, folding \r\n to \n, and steps the column
readRune(c) == readRune_first(ReadRune(c))

\* unreadRune: after r.r.UnreadRune(), whose result is u
unreadRune_done(u) ==
    IF u.err # nil
    THEN [c |-> u.c, err |-> u.err]
    ELSE [c |-> [u.c EXCEPT !.column = u.c.column - 1], err |-> nil]

\* Reader.unreadRune: puts the last rune back and steps the column back
unreadRune(c) == unreadRune_done(UnreadRune(c))

\* bytes.Buffer.WriteRune: appends r, an invalid code point as U+FFFD
WriteRune(c, r) ==
    LET valid == r >= 0 /\ r <= 1114111 /\ ~(r >= 55296 /\ r <= 57343)
    IN  [c EXCEPT !.buf = Append(c.buf, IF valid THEN r ELSE 65533)]

\* bytes.Buffer.Reset
Reset(c) == [c EXCEPT !.buf = <<>>]

\* Reader.skipWhitespace: the first rune that is not a space or tab
RECURSIVE skipWhitespace(_)
skipWhitespace(c) ==
    LET x == readRune(c) IN
    IF x.err # nil THEN x
    ELSE IF isSpace(x.r1) THEN skipWhitespace(x.c)
    ELSE x

\* Reader.skipRestOfLine: reads up to and including the next newline, then
\* steps the line counter and resets the column
RECURSIVE skipRestOfLine(_)
skipRestOfLine(c) ==
    LET x == readRune(c) IN
    IF x.err # nil THEN x
    ELSE IF x.r1 # Ch.lf THEN skipRestOfLine(x.c)
    ELSE [c |-> [x.c EXCEPT !.line = x.c.line + 1, !.column = 0],
          r1 |-> x.r1, err |-> nil]

(***************************************************************************)
(* 32-bit arithmetic of the rune accumulator of the numeric escapes.        *)
(***************************************************************************)
MaxInt32 == 2147483647

MinInt32 == (-MaxInt32) - 1

\* a + b in int32, wrapping around
Add32(a, b) ==
    IF a > 0 /\ b > 0 /\ a > MaxInt32 - b
    THEN ((a - MaxInt32) - 1) + ((b - MaxInt32) - 1)
    ELSE IF a < 0 /\ b < 0 /\ a < MinInt32 - b
    THEN ((a + MaxInt32) + 1) + ((b + MaxInt32) + 1)
    ELSE a + b

\* m * d in int32, wrapping around, for a digit value d >= 0
RECURSIVE Mul32(_, _)
Mul32(m, d) == IF d = 0 THEN 0 ELSE Add32(m, Mul32(m, d - 1))

\* codepoint += (1 << uint32(4*i)) * digit
AddHexDigit(codepoint, i, digit) == Add32(codepoint, Mul32(16 ^ i, digit))

(***************************************************************************)
(* Term lexers.  Each returns [c, term, err]: the cursor after the call,    *)
(* the term and the error (NilErr on success).                              *)
(***************************************************************************)
TermOk(c, term) == [c |-> c, term |-> term, err |-> NilErr]

TermErr(c, e) == [c |-> c, term |-> ZeroTerm, err |-> e]

\* a lexer that hands on the error of readRune as it is
ReadFailed_asIs(x) == TermErr(x.c, bare(x.err))

\* the result of a lexer whose readRune failed: io.EOF becomes a positioned
\* ErrUnexpectedEOF, any other error is returned as it is
ReadFailed(x) ==
    TermErr(x.c, IF x.err = EOF THEN wrap(x.c, ErrUnexpectedEOF) ELSE bare(x.err))

\* parseIRI: the digits of a \u or \U escape, from position i down to 0
RECURSIVE parseIRI_codepoint(_, _, _)
parseIRI_codepoint(c, i, codepoint) ==
    IF i < 0 THEN [c |-> c, codepoint |-> codepoint, err |-> NilErr]
    ELSE LET x == readRune(c) IN
         IF x.err # nil
         THEN [c |-> x.c, codepoint |-> codepoint, err |-> ReadFailed(x).err]
         ELSE IF x.r1 >= Ch.zero /\ x.r1 <= Ch.nine
         THEN parseIRI_codepoint(x.c, i - 1, AddHexDigit(codepoint, i, x.r1 - Ch.zero))
         ELSE IF x.r1 >= Ch.a /\ x.r1 <= Ch.f
         THEN parseIRI_codepoint(x.c, i - 1, AddHexDigit(codepoint, i, x.r1 - Ch.a + 10))
         ELSE IF x.r1 >= Ch.A /\ x.r1 <= Ch.F
         THEN parseIRI_codepoint(x.c, i - 1, AddHexDigit(codepoint, i, x.r1 - Ch.A + 10))
         ELSE [c |-> x.c, codepoint |-> codepoint,
               err |-> wrap(x.c, ErrInvalidCodepointExpression)]

\* a parseIRI that takes '>' right after '<' for the end of an IRI
RECURSIVE parseIRI_emptyAllowed(_)
parseIRI_emptyAllowed(c) ==
    LET x == readRune(c) IN
    IF x.err # nil THEN ReadFailed(x)
    ELSE IF \/ x.r1 <= 32
            \/ x.r1 \in {Ch.lt, Ch.dquote, Ch.lbrace, Ch.rbrace, Ch.pipe, Ch.caret, Ch.backtick}
    THEN TermErr(x.c, wrap(x.c, ErrUnexpectedCharacter))
    ELSE IF x.r1 = Ch.gt THEN TermOk(x.c, IRI(x.c.buf))
    ELSE IF x.r1 = Ch.backslash
    THEN LET y == readRune(x.c) IN
         IF y.err # nil THEN ReadFailed(y)
         ELSE IF y.r1 \in {Ch.u, Ch.U}
         THEN LET size == IF y.r1 = Ch.U THEN 8 ELSE 4
                  h == parseIRI_codepoint(y.c, size - 1, 0)
              IN  IF h.err # NilErr THEN TermErr(h.c, h.err)
                  ELSE parseIRI_emptyAllowed(WriteRune(h.c, h.codepoint))
         ELSE TermErr(y.c, wrap(y.c, ErrUnexpectedCharacter))
    ELSE parseIRI_emptyAllowed(WriteRune(x.c, x.r1))

\* Reader.parseIRI: the runes after '<' up to '>'
RECURSIVE parseIRI(_)
parseIRI(c) ==
    LET x == readRune(c) IN
    IF x.err # nil THEN ReadFailed(x)
    ELSE IF \/ x.r1 <= 32
            \/ x.r1 \in {Ch.lt, Ch.dquote, Ch.lbrace, Ch.rbrace, Ch.pipe, Ch.caret, Ch.backtick}
    THEN TermErr(x.c, wrap(x.c, ErrUnexpectedCharacter))
    ELSE IF x.r1 = Ch.gt
    THEN IF Len(x.c.buf) = 0
         THEN TermErr(x.c, wrap(x.c, ErrUnexpectedCharacter))
         ELSE TermOk(x.c, IRI(x.c.buf))
    ELSE IF x.r1 = Ch.backslash
    THEN LET y == readRune(x.c) IN
         IF y.err # nil THEN ReadFailed(y)
         ELSE IF y.r1 \in {Ch.u, Ch.U}
         THEN LET size == IF y.r1 = Ch.U THEN 8 ELSE 4
                  h == parseIRI_codepoint(y.c, size - 1, 0)
              IN  IF h.err # NilErr THEN TermErr(h.c, h.err)
                  ELSE parseIRI(WriteRune(h.c, h.codepoint))
         ELSE TermErr(y.c, wrap(y.c, ErrUnexpectedCharacter))
    ELSE parseIRI(WriteRune(x.c, x.r1))

\* a label loop whose lookahead after a '.' knows the line feed but not the
\* carriage return
RECURSIVE parseBlankNode_label_peekLineFeed(_)
parseBlankNode_label_peekLineFeed(c) ==
    LET x == readRune(c) IN
    IF x.err # nil THEN ReadFailed(x)
    ELSE IF isPnChars(x.r1) THEN parseBlankNode_label_peekLineFeed(WriteRune(x.c, x.r1))
    ELSE IF isSpace(x.r1) THEN TermOk(x.c, Blank(x.c.buf))
    ELSE IF x.r1 = Ch.dot
    THEN LET u == unreadRune(x.c) IN
         IF u.err # nil THEN TermOk(u.c, ZeroTerm)
         ELSE LET pk == Peek2(u.c) IN
              IF pk.err = EOF THEN TermOk(pk.c, Blank(pk.c.buf))
              ELSE IF pk.next[2] \in {Ch.space, Ch.tab, Ch.lf}
              THEN TermOk(pk.c, Blank(pk.c.buf))
              ELSE LET z == readRune(pk.c) IN
                   IF z.err # nil THEN TermErr(z.c, bare(z.err))
                   ELSE parseBlankNode_label_peekLineFeed(WriteRune(z.c, x.r1))
    ELSE TermErr(x.c, wrap(x.c, ErrUnexpectedCharacter))

\* a label loop that ends the label at every '.'
RECURSIVE parseBlankNode_label_dotEnds(_)
parseBlankNode_label_dotEnds(c) ==
    LET x == readRune(c) IN
    IF x.err # nil THEN ReadFailed(x)
    ELSE IF isPnChars(x.r1) THEN parseBlankNode_label_dotEnds(WriteRune(x.c, x.r1))
    ELSE IF isSpace(x.r1) THEN TermOk(x.c, Blank(x.c.buf))
    ELSE IF x.r1 = Ch.dot
    THEN LET u == unreadRune(x.c) IN
         IF u.err # nil THEN TermOk(u.c, ZeroTerm)
         ELSE TermOk(u.c, Blank(u.c.buf))
    ELSE TermErr(x.c, wrap(x.c, ErrUnexpectedCharacter))

\* Reader.parseBlankNode: the label loop after the first label character
RECURSIVE parseBlankNode_label(_)
parseBlankNode_label(c) ==
    LET x == readRune(c) IN
    IF x.err # nil THEN ReadFailed(x)
    ELSE IF isPnChars(x.r1) THEN parseBlankNode_label(WriteRune(x.c, x.r1))
    ELSE IF isSpace(x.r1) THEN TermOk(x.c, Blank(x.c.buf))
    ELSE IF x.r1 = Ch.dot
    THEN LET u == unreadRune(x.c) IN
         IF u.err # nil THEN TermOk(u.c, ZeroTerm)
         ELSE LET pk == Peek2(u.c) IN
              IF pk.err = EOF THEN TermOk(pk.c, Blank(pk.c.buf))
              ELSE IF pk.next[2] \in {Ch.space, Ch.tab, Ch.lf, Ch.cr}
              THEN TermOk(pk.c, Blank(pk.c.buf))
              ELSE LET z == readRune(pk.c) IN
                   IF z.err # nil THEN TermErr(z.c, bare(z.err))
                   ELSE parseBlankNode_label(WriteRune(z.c, x.r1))
    ELSE TermErr(x.c, wrap(x.c, ErrUnexpectedCharacter))

\* Reader.parseBlankNode: the runes after '_'
parseBlankNode(c) ==
    LET x == readRune(c) IN
    IF x.err # nil THEN ReadFailed(x)
    ELSE IF x.r1 # Ch.colon THEN TermErr(x.c, wrap(x.c, ErrUnexpectedCharacter))
    ELSE LET y == readRune(x.c) IN
         IF y.err # nil THEN ReadFailed(y)
         ELSE IF ~(isPnCharsU(y.r1) \/ isNumeral(y.r1))
         THEN TermErr(y.c, wrap(y.c, ErrUnexpectedCharacter))
         ELSE parseBlankNode_label(WriteRune(y.c, y.r1))

\* parseLiteral: the language tag after '@'
RECURSIVE parseLiteral_language(_, _, _)
parseLiteral_language(c, value, major) ==
    LET x == readRune(c) IN
    IF x.err # nil THEN ReadFailed(x)
    ELSE IF x.r1 = Ch.dot \/ isSpace(x.r1)
    THEN IF Len(x.c.buf) = 0
         THEN TermErr(x.c, wrap(x.c, ErrUnexpectedCharacter))
         ELSE LET u == unreadRune(x.c) IN
              IF u.err # nil THEN TermErr(u.c, wrap(u.c, u.err))
              ELSE TermOk(u.c, LiteralWithLanguage(value, u.c.buf))
    ELSE IF major
    THEN IF isAlpha(x.r1) THEN parseLiteral_language(WriteRune(x.c, x.r1), value, TRUE)
         ELSE IF x.r1 = Ch.minus
         THEN parseLiteral_language(WriteRune(x.c, x.r1), value, FALSE)
         ELSE TermErr(x.c, wrap(x.c, ErrUnexpectedCharacter))
    ELSE IF isAlpha(x.r1) \/ isNumeral(x.r1)
         THEN parseLiteral_language(WriteRune(x.c, x.r1), value, FALSE)
         ELSE TermErr(x.c, wrap(x.c, ErrUnexpectedCharacter))

\* parseLiteral: the datatype IRI after '^^<'
RECURSIVE parseLiteral_datatype(_, _)
parseLiteral_datatype(c, value) ==
    LET x == readRune(c) IN
    IF x.err # nil THEN ReadFailed(x)
    ELSE IF x.r1 = Ch.gt
    THEN IF Len(x.c.buf) = 0
         THEN TermErr(x.c, wrap(x.c, ErrUnexpectedCharacter))
         ELSE TermOk(x.c, LiteralWithDatatype(value, x.c.buf))
    ELSE IF x.r1 < 32 \/ x.r1 > 126 \/ x.r1 = Ch.space \/ x.r1 = Ch.lt \/ x.r1 = Ch.dquote
    THEN TermErr(x.c, wrap(x.c, ErrUnexpectedCharacter))
    ELSE parseLiteral_datatype(WriteRune(x.c, x.r1), value)

\* parseLiteral: what follows the closing quote
parseLiteral_closed(c) ==
    LET x == readRune(c) IN
    IF x.err # nil THEN ReadFailed(x)
    ELSE IF x.r1 \in {Ch.dot, Ch.space, Ch.tab}
    THEN LET u == unreadRune(x.c) IN
         IF u.err # nil THEN TermErr(u.c, wrap(u.c, u.err))
         ELSE TermOk(u.c, Literal(u.c.buf))
    ELSE IF x.r1 = Ch.at
    THEN parseLiteral_language(Reset(x.c), x.c.buf, TRUE)
    ELSE IF x.r1 = Ch.caret
    THEN LET value == x.c.buf
             y == readRune(Reset(x.c))
         IN  IF y.err # nil THEN ReadFailed(y)
             ELSE IF y.r1 # Ch.caret THEN TermErr(y.c, wrap(y.c, ErrUnexpectedCharacter))
             ELSE LET z == readRune(y.c) IN
                  IF z.err # nil THEN ReadFailed(z)
                  ELSE IF z.r1 # Ch.lt THEN TermErr(z.c, wrap(z.c, ErrUnexpectedCharacter))
                  ELSE parseLiteral_datatype(z.c, value)
    ELSE TermErr(x.c, wrap(x.c, ErrUnexpectedCharacter))

\* parseLiteral: the digits of a \u or \U escape, from position i down to 0
RECURSIVE parseLiteral_codepoint(_, _, _)
parseLiteral_codepoint(c, i, codepoint) ==
    IF i < 0 THEN [c |-> c, codepoint |-> codepoint, err |-> NilErr]
    ELSE LET x == readRune(c) IN
         IF x.err # nil
         THEN [c |-> x.c, codepoint |-> codepoint, err |-> ReadFailed(x).err]
         ELSE IF x.r1 >= Ch.zero /\ x.r1 <= Ch.nine
         THEN parseLiteral_codepoint(x.c, i - 1, AddHexDigit(codepoint, i, x.r1 - Ch.zero))
         ELSE IF x.r1 >= Ch.a /\ x.r1 <= Ch.f
         THEN parseLiteral_codepoint(x.c, i - 1, AddHexDigit(codepoint, i, x.r1 - Ch.a + 10))
         ELSE IF x.r1 >= Ch.A /\ x.r1 <= Ch.F
         THEN parseLiteral_codepoint(x.c, i - 1, AddHexDigit(codepoint, i, x.r1 - Ch.A + 10))
         ELSE [c |-> x.c, codepoint |-> codepoint,
               err |-> wrap(x.c, ErrInvalidCodepointExpression)]

\* a parseLiteral that scans a decoded code point again: a double quote that
\* comes from an escape closes the literal
RECURSIVE parseLiteral_rescan(_)
parseLiteral_rescan(c) ==
    LET x == readRune(c) IN
    IF x.err # nil THEN ReadFailed(x)
    ELSE IF x.r1 = Ch.dquote THEN parseLiteral_closed(x.c)
    ELSE IF x.r1 = Ch.backslash
    THEN LET y == readRune(x.c) IN
         IF y.err # nil THEN ReadFailed(y)
         ELSE IF y.r1 = Ch.dquote THEN parseLiteral_closed(y.c)
         ELSE IF y.r1 = Ch.backslash THEN parseLiteral_rescan(WriteRune(y.c, y.r1))
         ELSE IF y.r1 = Ch.t THEN parseLiteral_rescan(WriteRune(y.c, Ch.tab))
         ELSE IF y.r1 = Ch.r THEN parseLiteral_rescan(WriteRune(y.c, Ch.cr))
         ELSE IF y.r1 = Ch.n THEN parseLiteral_rescan(WriteRune(y.c, Ch.lf))
         ELSE IF y.r1 = Ch.b THEN parseLiteral_rescan(WriteRune(y.c, Ch.bs))
         ELSE IF y.r1 = Ch.f THEN parseLiteral_rescan(WriteRune(y.c, Ch.ff))
         ELSE IF y.r1 \in {Ch.u, Ch.U}
         THEN LET size == IF y.r1 = Ch.U THEN 8 ELSE 4
                  h == parseLiteral_codepoint(y.c, size - 1, 0)
              IN  IF h.err # NilErr THEN TermErr(h.c, h.err)
                  ELSE IF h.codepoint = Ch.dquote THEN parseLiteral_closed(h.c)
                  ELSE parseLiteral_rescan(WriteRune(h.c, h.codepoint))
         ELSE TermErr(y.c, wrap(y.c, ErrUnexpectedCharacter))
    ELSE parseLiteral_rescan(WriteRune(x.c, x.r1))

\* Reader.parseLiteral: the runes after the opening quote
RECURSIVE parseLiteral(_)
parseLiteral(c) ==
    LET x == readRune(c) IN
    IF x.err # nil THEN ReadFailed(x)
    ELSE IF x.r1 = Ch.dquote THEN parseLiteral_closed(x.c)
    ELSE IF x.r1 = Ch.backslash
    THEN LET y == readRune(x.c) IN
         IF y.err # nil THEN ReadFailed(y)
         ELSE IF y.r1 \in {Ch.backslash, Ch.dquote} THEN parseLiteral(WriteRune(y.c, y.r1))
         ELSE IF y.r1 = Ch.t THEN parseLiteral(WriteRune(y.c, Ch.tab))
         ELSE IF y.r1 = Ch.r THEN parseLiteral(WriteRune(y.c, Ch.cr))
         ELSE IF y.r1 = Ch.n THEN parseLiteral(WriteRune(y.c, Ch.lf))
         ELSE IF y.r1 = Ch.b THEN parseLiteral(WriteRune(y.c, Ch.bs))
         ELSE IF y.r1 = Ch.f THEN parseLiteral(WriteRune(y.c, Ch.ff))
         ELSE IF y.r1 \in {Ch.u, Ch.U}
         THEN LET size == IF y.r1 = Ch.U THEN 8 ELSE 4
                  h == parseLiteral_codepoint(y.c, size - 1, 0)
              IN  IF h.err # NilErr THEN TermErr(h.c, h.err)
                  ELSE parseLiteral(WriteRune(h.c, h.codepoint))
         ELSE TermErr(y.c, wrap(y.c, ErrUnexpectedCharacter))
    ELSE parseLiteral(WriteRune(x.c, x.r1))

\* an object dispatcher that wants a space or tab before the term
parseAnyTerm_spaceFirst(c) ==
    LET s == readRune(Reset(c))
        x == skipWhitespace(s.c)
    IN  IF s.err # nil THEN TermErr(s.c, bare(s.err))
        ELSE IF ~isSpace(s.r1) THEN TermErr(s.c, wrap(s.c, ErrUnexpectedCharacter))
        ELSE IF x.err # nil THEN TermErr(x.c, bare(x.err))
        ELSE IF x.r1 = Ch.lt THEN parseIRI(x.c)
        ELSE IF x.r1 = Ch.underscore THEN parseBlankNode(x.c)
        ELSE IF x.r1 = Ch.dquote THEN parseLiteral(x.c)
        ELSE TermErr(x.c, wrap(x.c, ErrUnexpectedCharacter))

\* Reader.parseAnyTerm: the object slot
parseAnyTerm(c) ==
    LET x == skipWhitespace(Reset(c)) IN
    IF x.err # nil THEN TermErr(x.c, bare(x.err))
    ELSE IF x.r1 = Ch.lt THEN parseIRI(x.c)
    ELSE IF x.r1 = Ch.underscore THEN parseBlankNode(x.c)
    ELSE IF x.r1 = Ch.dquote THEN parseLiteral(x.c)
    ELSE TermErr(x.c, wrap(x.c, ErrUnexpectedCharacter))

\* a subject and predicate dispatcher that also accepts a literal
parseIriOrBlankNode_anyTerm(c) == parseAnyTerm(c)

\* Reader.parseIriOrBlankNode: the subject and predicate slots
parseIriOrBlankNode(c) ==
    LET x == skipWhitespace(Reset(c)) IN
    IF x.err # nil THEN TermErr(x.c, bare(x.err))
    ELSE IF x.r1 = Ch.lt THEN parseIRI(x.c)
    ELSE IF x.r1 = Ch.underscore THEN parseBlankNode(x.c)
    ELSE TermErr(x.c, wrap(x.c, ErrUnexpectedCharacter))

\* parseIriOrBlankNodeOrEndTriple: the three results (end, term, err) of the
\* graph slot from the result t of a lexer
GraphSlot(t, end) == [c |-> t.c, end |-> end, term |-> t.term, err |-> t.err]

\* a graph slot dispatcher that does not take '.' as the end of a triple
parseIriOrBlankNodeOrEndTriple_noEnd(c) ==
    LET x == skipWhitespace(Reset(c)) IN
    IF x.err # nil THEN GraphSlot(TermErr(x.c, bare(x.err)), FALSE)
    ELSE IF x.r1 = Ch.lt THEN GraphSlot(parseIRI(x.c), FALSE)
    ELSE IF x.r1 = Ch.underscore THEN GraphSlot(parseBlankNode(x.c), FALSE)
    ELSE GraphSlot(TermErr(x.c, wrap(x.c, ErrUnexpectedCharacter)), FALSE)

\* Reader.parseIriOrBlankNodeOrEndTriple: the graph slot, or the '.' of a
\* triple; returns [c, end, term, err]
parseIriOrBlankNodeOrEndTriple(c) ==
    LET x == skipWhitespace(Reset(c)) IN
    IF x.err # nil THEN GraphSlot(TermErr(x.c, bare(x.err)), FALSE)
    ELSE IF x.r1 = Ch.lt THEN GraphSlot(parseIRI(x.c), FALSE)
    ELSE IF x.r1 = Ch.underscore THEN GraphSlot(parseBlankNode(x.c), FALSE)
    ELSE IF x.r1 = Ch.dot THEN GraphSlot(TermOk(x.c, ZeroTerm), TRUE)
    ELSE GraphSlot(TermErr(x.c, wrap(x.c, ErrUnexpectedCharacter)), FALSE)

\* Reader.readEndQuad: the '.' after the graph term; returns [c, err]
readEndQuad(c) ==
    LET x == skipWhitespace(c) IN
    IF x.err # nil
    THEN [c |-> x.c,
          err |-> IF x.err = EOF THEN wrap(x.c, ErrUnterminatedQuad) ELSE bare(x.err)]
    ELSE IF x.r1 # Ch.dot THEN [c |-> x.c, err |-> wrap(x.c, ErrUnexpectedCharacter)]
    ELSE [c |-> x.c, err |-> NilErr]

\* Reader.expectCommentOrEndOfLine: the rest of the line after the '.';
\* returns [c, err]
expectCommentOrEndOfLine(c) ==
    LET x == skipWhitespace(c) IN
    IF x.err # nil
    THEN [c |-> x.c, err |-> IF x.err = EOF THEN NilErr ELSE bare(x.err)]
    ELSE IF x.r1 = Ch.hash
    THEN LET y == skipRestOfLine(x.c) IN
         IF y.err # nil
         THEN [c |-> y.c, err |-> IF y.err = EOF THEN NilErr ELSE bare(y.err)]
         ELSE [c |-> y.c, err |-> NilErr]
    ELSE IF x.r1 # Ch.lf THEN [c |-> x.c, err |-> wrap(x.c, ErrUnexpectedCharacter)]
    ELSE [c |-> x.c, err |-> NilErr]

(***************************************************************************)
(* Reader.Next.                                                             *)
(***************************************************************************)

\* a sticky-error test that never stops the reader
Exhausted_never(e) == FALSE

\* if r.err != nil { return false }
Exhausted(e) == e # NilErr

\* end of input before a statement recorded as an error
Next_skipFailed_eofIsError(e) == bare(e)

\* Next: what r.err becomes when skipping to the start of a statement
\* fails: end of input is not an error
Next_skipFailed(e) == IF e = EOF THEN NilErr ELSE bare(e)

\* a loop that skips comment lines but stops at a blank line
RECURSIVE Next_skip_stopAtBlank(_)
Next_skip_stopAtBlank(c) ==
    LET x == skipWhitespace(c) IN
    IF x.err # nil THEN x
    ELSE IF x.r1 = Ch.hash
    THEN LET y == skipRestOfLine(x.c) IN
         IF y.err # nil THEN y
         ELSE IF y.r1 = Ch.lf THEN Next_skip_stopAtBlank(y.c)
         ELSE y
    ELSE x

\* Next: skips blank lines and comment lines up to the first rune of a
\* statement; returns [c, r1, err] like readRune
RECURSIVE Next_skip(_)
Next_skip(c) ==
    LET x == skipWhitespace(c) IN
    IF x.err # nil THEN x
    ELSE IF x.r1 = Ch.hash
    THEN LET y == skipRestOfLine(x.c) IN
         IF y.err # nil THEN y
         ELSE IF y.r1 = Ch.lf THEN Next_skip(y.c)
         ELSE y
    ELSE IF x.r1 = Ch.lf THEN Next_skip(x.c)
    ELSE x

\* Next: the absoluteness test of the subject and the predicate
Next_relativeTerm(term) == term.Kind = IRITerm /\ ~isAbsoluteIRI(term.Value)

\* Next: the absoluteness test of the object
Next_relativeObject(term) ==
    \/ term.Kind = IRITerm /\ ~isAbsoluteIRI(term.Value)
    \/ term.Kind = LiteralTerm /\ term.Datatype # <<>> /\ ~isAbsoluteIRI(term.Datatype)

\* Next: the reader after a return: cursor, r.err, r.q and the returned
\* boolean
Next_return(c, e, quad, result) == [c |-> c, err |-> e, q |-> quad, ret |-> result]

\* Next: r.err = r.expectCommentOrEndOfLine(); return r.err == nil, where x
\* is the result of expectCommentOrEndOfLine
Next_endOfLine(x, quad) == Next_return(x.c, x.err, quad, x.err = NilErr)

\* Next: after readEndQuad, whose result is d
Next_endQuad(d, quad) ==
    IF d.err # NilErr THEN Next_return(d.c, d.err, quad, FALSE)
    ELSE Next_endOfLine(expectCommentOrEndOfLine(d.c), quad)

\* Next: "Graph or end", where g is the result of
\* parseIriOrBlankNodeOrEndTriple and quad holds S, P and O
Next_graphOrEnd(g, quad) ==
    IF g.err # NilErr THEN Next_return(g.c, g.err, quad, FALSE)
    ELSE IF g.end THEN Next_endOfLine(expectCommentOrEndOfLine(g.c), quad)
    ELSE Next_endQuad(readEndQuad(g.c), [quad EXCEPT !.G = g.term])

\* Next: "Object", where o is the result of parseAnyTerm and quad holds S
\* and P
Next_object(o, quad) ==
    IF o.err # NilErr THEN Next_return(o.c, o.err, quad, FALSE)
    ELSE IF Next_relativeObject(o.term)
    THEN Next_return(o.c, wrap(o.c, ErrRelativeIRI), quad, FALSE)
    ELSE Next_graphOrEnd(parseIriOrBlankNodeOrEndTriple(o.c), [quad EXCEPT !.O = o.term])

\* Next: "Property", where p is the result of parseIriOrBlankNode and quad
\* holds S
Next_property(p, quad) ==
    IF p.err # NilErr THEN Next_return(p.c, p.err, quad, FALSE)
    ELSE IF Next_relativeTerm(p.term)
    THEN Next_return(p.c, wrap(p.c, ErrRelativeIRI), quad, FALSE)
    ELSE Next_object(parseAnyTerm(p.c), [quad EXCEPT !.P = p.term])

\* Next: "Subject", where s is the result of parseIriOrBlankNode
Next_subject(s) ==
    IF s.err # NilErr THEN Next_return(s.c, s.err, ZeroQuad, FALSE)
    ELSE IF Next_relativeTerm(s.term)
    THEN Next_return(s.c, wrap(s.c, ErrRelativeIRI), ZeroQuad, FALSE)
    ELSE Next_property(parseIriOrBlankNode(s.c), [ZeroQuad EXCEPT !.S = s.term])

\* Next: r.r.UnreadRune() of the first rune of the statement, whose result
\* is u
Next_unread(u) ==
    IF u.err # nil THEN Next_return(u.c, bare(u.err), ZeroQuad, FALSE)
    ELSE Next_subject(parseIriOrBlankNode(u.c))

\* a Next that returns true when the input ends before a statement
Next_statement_trueAtEnd(k) ==
    IF k.err # nil THEN Next_return(k.c, Next_skipFailed(k.err), ZeroQuad, k.err = EOF)
    ELSE Next_unread(UnreadRune(k.c))

\* Next: after the loop over blank lines and comment lines, whose result is k
Next_statement(k) ==
    IF k.err # nil THEN Next_return(k.c, Next_skipFailed(k.err), ZeroQuad, FALSE)
    ELSE Next_unread(UnreadRune(k.c))

\* a Next that steps the line counter and resets the column before it looks
\* at the recorded error
ReaderNext_countFirst(c, e, qq) ==
    IF Exhausted(e)
    THEN Next_return([c EXCEPT !.line = c.line + 1, !.column = -1], e, qq, FALSE)
    ELSE Next_statement(Next_skip([c EXCEPT !.line = c.line + 1, !.column = -1]))

\* Reader.Next on a reader with cursor c, error e and quad qq; returns the
\* new cursor, error and quad and the returned boolean: [c, err, q, ret]
ReaderNext(c, e, qq) ==
    IF Exhausted(e) THEN Next_return(c, e, qq, FALSE)
    ELSE Next_statement(Next_skip([c EXCEPT !.line = c.line + 1, !.column = -1]))

\* Reader.Err
Err == err

\* Reader.Quad
Quad == q

(***************************************************************************)
(* Text forms, used to build inputs.                                        *)
(***************************************************************************)
RECURSIVE Concat(_)
Concat(ss) == IF ss = <<>> THEN <<>> ELSE Head(ss) \o Concat(Tail(ss))

\* the canonical text of a term
Term_String(t) ==
    IF t.Kind = IRITerm THEN <<Ch.lt>> \o t.Value \o <<Ch.gt>>
    ELSE IF t.Kind = BlankTerm THEN <<Ch.underscore, Ch.colon>> \o t.Value
    ELSE IF t.Kind = LiteralTerm
    THEN IF t.Language # <<>>
         THEN <<Ch.dquote>> \o t.Value \o <<Ch.dquote, Ch.at>> \o t.Language
         ELSE IF t.Datatype # <<>>
         THEN <<Ch.dquote>> \o t.Value \o <<Ch.dquote, Ch.caret, Ch.caret, Ch.lt>>
                  \o t.Datatype \o <<Ch.gt>>
         ELSE <<Ch.dquote>> \o t.Value \o <<Ch.dquote>>
    ELSE <<>>

\* Quad.String: "S P O ." or "S P O G ."
Quad_String(qd) ==
    IF qd.G.Kind = UnknownTerm
    THEN Term_String(qd.S) \o <<Ch.space>> \o Term_String(qd.P) \o <<Ch.space>>
             \o Term_String(qd.O) \o <<Ch.space, Ch.dot>>
    ELSE Term_String(qd.S) \o <<Ch.space>> \o Term_String(qd.P) \o <<Ch.space>>
             \o Term_String(qd.O) \o <<Ch.space>> \o Term_String(qd.G)
             \o <<Ch.space, Ch.dot>>

(***************************************************************************)
(* Bounds.                                                                  *)
(***************************************************************************)
\* calls to Next made on one reader
MaxCalls == 4

\* tokens put between a statement prefix and a statement suffix
MaxMid == 2

\* statements of a rendered document
MaxStmts == 2

\* pieces (characters or escapes) in the body of a term written by a test
MaxPieces == 2

\* lines written before the statement under test
MaxLead == 2

(***************************************************************************)
(* Terms the inputs are built from.                                         *)
(***************************************************************************)
sA == IRI(<<Ch.s, Ch.colon, Ch.a>>)
sR == IRI(<<Ch.s, Ch.a>>)
sB == Blank(<<Ch.s>>)
pA == IRI(<<Ch.p, Ch.colon, Ch.a>>)
pR == IRI(<<Ch.p, Ch.a>>)
pB == Blank(<<Ch.p>>)
oA == IRI(<<Ch.o, Ch.colon, Ch.a>>)
oR == IRI(<<Ch.o, Ch.a>>)
oB == Blank(<<Ch.o>>)
oL == Literal(<<Ch.l>>)
oLang == LiteralWithLanguage(<<Ch.l>>, <<Ch.e, Ch.n>>)
oDT == LiteralWithDatatype(<<Ch.l>>, <<Ch.d, Ch.colon, Ch.t>>)
oDR == LiteralWithDatatype(<<Ch.l>>, <<Ch.d, Ch.t>>)
gA == IRI(<<Ch.g, Ch.colon, Ch.a>>)
gR == IRI(<<Ch.g, Ch.a>>)
gB == Blank(<<Ch.g>>)

MkQuad(s1, p1, o1, g1) == [S |-> s1, P |-> p1, O |-> o1, G |-> g1]

(***************************************************************************)
(* Inputs of the first kind: a statement with a hole.  The first terms of   *)
(* a statement, then up to MaxMid tokens, then the rest of a statement.     *)
(***************************************************************************)
SP == <<Ch.space>>
LF == <<Ch.lf>>
CRLF == <<Ch.cr, Ch.lf>>

\* the first k terms of ts, separated by one space
RECURSIVE TermsPrefix(_, _)
TermsPrefix(ts, k) ==
    IF k = 0 THEN <<>>
    ELSE IF k = 1 THEN Term_String(ts[1])
    ELSE TermsPrefix(ts, k - 1) \o SP \o Term_String(ts[k])

\* the terms of ts from the k-th on, each preceded by one space, then " ."
RECURSIVE TermsSuffix(_, _)
TermsSuffix(ts, k) ==
    IF k > Len(ts) THEN <<Ch.space, Ch.dot>>
    ELSE SP \o Term_String(ts[k]) \o TermsSuffix(ts, k + 1)

IriTerms == <<sA, pA, oA, gA>>
BlankTerms == <<sB, pB, oL, gB>>

Prefixes ==
    {TermsPrefix(IriTerms, k) : k \in 0..4}
        \cup {TermsPrefix(BlankTerms, 3)}
        \cup {Quad_String(MkQuad(sA, pA, oA, gA)) \o LF}

Suffixes ==
    {<<>>}
        \cup {TermsSuffix(IriTerms, k) : k \in 3..5}
        \cup {LF \o Quad_String(MkQuad(sA, pA, oA, ZeroTerm)) \o LF}
        \cup {<<Ch.space, Ch.hash, Ch.c, Ch.cr, Ch.lf, Ch.tab, Ch.lf, Ch.hash, Ch.c>>}

Tokens ==
    { SP, <<Ch.dot>>, LF, <<Ch.cr>>, <<Ch.hash>>, <<Ch.x>>, <<Ch.lt>>,
      Term_String(IRI(<<Ch.r>>)), Term_String(Blank(<<Ch.b>>)), Term_String(oL) }

Mids == {Concat(m) : m \in UNION {[1..n -> Tokens] : n \in 0..MaxMid}}

HoleInputs == {pre \o mid \o suf : pre \in Prefixes, mid \in Mids, suf \in Suffixes}

\* the test case of an input that is not written around one term
NoCase == [kind |-> "none", pieces |-> <<>>, close |-> <<>>, tail |-> <<>>, cut |-> -1]

(***************************************************************************)
(* Inputs of the second kind: documents rendered from quads, as in the      *)
(* table of parse cases (an inline text and the quads it must give).        *)
(***************************************************************************)
BaseQuad == MkQuad(sA, pA, oA, ZeroTerm)

\* the quads that differ from BaseQuad in at most one term, and two quads
\* with blank nodes in several places
Statements ==
    {MkQuad(s1, pA, oA, ZeroTerm) : s1 \in {sA, sR, sB}}
        \cup {MkQuad(sA, p1, oA, ZeroTerm) : p1 \in {pR, pB}}
        \cup {MkQuad(sA, pA, o1, ZeroTerm) : o1 \in {oR, oB, oL, oLang, oDT, oDR}}
        \cup {MkQuad(sA, pA, oA, g1) : g1 \in {gA, gR, gB}}
        \cup {MkQuad(sB, pB, oB, gB), MkQuad(sB, pA, oLang, gB)}

\* a statement with no more whitespace than the lexers need: none after a
\* term that ends with '>', one space after any other term, none before '.'
Minimal_String(qd) ==
    LET sep(t) == IF t.Kind = IRITerm \/ (t.Kind = LiteralTerm /\ t.Datatype # <<>>)
                  THEN <<>> ELSE SP
        last == IF qd.G.Kind = UnknownTerm
                THEN Term_String(qd.O)
                ELSE Term_String(qd.O) \o sep(qd.O) \o Term_String(qd.G)
    IN  Term_String(qd.S) \o sep(qd.S) \o Term_String(qd.P) \o sep(qd.P)
            \o last \o <<Ch.dot>>

Layout(qd, lay) == IF lay = "minimal" THEN Minimal_String(qd) ELSE Quad_String(qd)

\* how a document is written: the layout of its statements, the line
\* ending, and whether the last line is ended
Styles ==
    { [lay |-> "canonical", eol |-> LF, final |-> TRUE],
      [lay |-> "canonical", eol |-> CRLF, final |-> FALSE],
      [lay |-> "minimal", eol |-> LF, final |-> FALSE],
      [lay |-> "minimal", eol |-> CRLF, final |-> TRUE] }

\* the statements of qs, one per line, lines ended by eol; the last line is
\* ended only if final
RECURSIVE Document(_, _, _, _)
Document(qs, lay, eol, final) ==
    IF qs = <<>> THEN <<>>
    ELSE IF Len(qs) = 1 THEN Layout(qs[1], lay) \o (IF final THEN eol ELSE <<>>)
    ELSE Layout(qs[1], lay) \o eol \o Document(Tail(qs), lay, eol, final)

QuadLists == UNION {[1..n -> Statements] : n \in 0..MaxStmts}

(***************************************************************************)
(* The state machine.                                                       *)
(***************************************************************************)

\* NewReader: a reader on a fresh bufio.Reader
NewReader ==
    /\ rpos = 0
    /\ lastRuneSize = -1
    /\ line = 0
    /\ column = 0
    /\ buf = <<>>
    /\ err = NilErr
    /\ q = ZeroQuad
    /\ ret = FALSE
    /\ calls = 0

Init ==
    /\ input \in HoleInputs
    /\ quads = <<>>
    /\ tc = NoCase
    /\ NewReader

InitDoc ==
    /\ quads \in QuadLists
    /\ \E st \in Styles : input = Document(quads, st.lay, st.eol, st.final)
    /\ tc = NoCase
    /\ NewReader

\* the reader's cursor
Cursor ==
    [rpos |-> rpos, lastRuneSize |-> lastRuneSize, line |-> line,
     column |-> column, buf |-> buf]

\* one call of Reader.Next by the caller
NextCall ==
    /\ calls < MaxCalls
    /\ \E n \in {ReaderNext(Cursor, err, q)} :
           /\ rpos' = n.c.rpos
           /\ lastRuneSize' = n.c.lastRuneSize
           /\ line' = n.c.line
           /\ column' = n.c.column
           /\ buf' = n.c.buf
           /\ err' = n.err
           /\ q' = n.q
           /\ ret' = n.ret
    /\ calls' = calls + 1
    /\ UNCHANGED <<input, quads, tc>>

Next == NextCall

Spec == Init /\ [][Next]_vars

SpecDoc == InitDoc /\ [][Next]_vars

(***************************************************************************)
(* Vocabulary of the properties.                                            *)
(***************************************************************************)
StartsWith(str, pre) == Len(pre) <= Len(str) /\ SubSeq(str, 1, Len(pre)) = pre

\* the part of the input the source has not handed out yet
Remaining == SubSeq(input, rpos + 1, Len(input))

ContainsColon(v) == \E i \in 1..Len(v) : v[i] = 58

\* spaces, tabs, line ends (\n or \r\n) and '#' comments only
RECURSIVE WsOnlyFrom(_, _, _)
WsOnlyFrom(str, i, inComment) ==
    IF i > Len(str) THEN TRUE
    ELSE IF inComment THEN WsOnlyFrom(str, i + 1, str[i] # 10)
    ELSE IF str[i] \in {32, 9, 10} THEN WsOnlyFrom(str, i + 1, FALSE)
    ELSE IF str[i] = 13
    THEN i < Len(str) /\ str[i + 1] = 10 /\ WsOnlyFrom(str, i + 2, FALSE)
    ELSE IF str[i] = 35 THEN WsOnlyFrom(str, i + 1, TRUE)
    ELSE FALSE

WsOnly(str) == WsOnlyFrom(str, 1, FALSE)

IsParseError(e, kind) == e.ParseError /\ e.Err = kind

RelativeIRITerm(t) == t.Kind = IRITerm /\ ~ContainsColon(t.Value)

RelativeDatatype(t) == t.Kind = LiteralTerm /\ t.Datatype # <<>> /\ ~ContainsColon(t.Datatype)

\* a relative IRI as subject, predicate, object or datatype of the object
RelativeSPO(qd) ==
    \/ RelativeIRITerm(qd.S) \/ RelativeIRITerm(qd.P)
    \/ RelativeIRITerm(qd.O) \/ RelativeDatatype(qd.O)

\* a quad whose text is a well-formed statement: every IRI is absolute
WellFormed(qd) == ~RelativeSPO(qd) /\ ~RelativeIRITerm(qd.G)

AllWellFormed(qs) == \A i \in 1..Len(qs) : WellFormed(qs[i])

\* call number k reads statement number k of the document
ReadsStatement(k) ==
    /\ calls = k
    /\ k <= Len(quads)
    /\ \A j \in 1..(k - 1) : WellFormed(quads[j])

(***************************************************************************)
(* Properties.                                                              *)
(***************************************************************************)

\* C1: once Err() is non-nil, every later call to Next returns false,
\* whatever input remains.
C1_StickyError == [][(Err # NilErr) => (ret' = FALSE)]_vars

C1_Witness == Err # NilErr /\ calls >= 2 /\ ~ret /\ rpos < Len(input)

\* C2: when the remaining input holds only spaces, tabs, blank lines and
\* '#' comments (or nothing), Next returns false and Err() stays nil.
C2_CleanEndOfInput ==
    [][(Err = NilErr /\ WsOnly(Remaining)) => (ret' = FALSE /\ Err' = NilErr)]_vars

C2_Witness ==
    /\ calls >= 2 /\ ~ret /\ Err = NilErr
    /\ WsOnly(input)
    /\ \E i \in 1..Len(input) : input[i] = Ch.hash
    /\ input[Len(input)] # Ch.lf

\* C3: on a document of n well-formed statements, one per line, call k
\* (k <= n) returns true with the quad of statement k, and every call after
\* the n-th returns false with no error.
C3_StatementsInOrder ==
    AllWellFormed(quads) =>
        /\ (calls \in 1..Len(quads)) => (ret /\ Quad = quads[calls])
        /\ (calls > Len(quads)) => (~ret /\ Err = NilErr)

C3_Witness ==
    /\ Len(quads) = 2 /\ AllWellFormed(quads) /\ quads[1] # quads[2]
    /\ calls = 2 /\ ret /\ Quad = quads[2]

\* C4: after a call to Next that returned false, Quad() is the zero quad.
C4_ZeroQuadAfterFailure == (calls >= 1 /\ ~ret) => Quad = ZeroQuad

\* C5: every non-nil Err() is a ParseError whose kind is one of the five
\* error kinds of the package.
C5_ErrorsAreParseErrors ==
    (Err # NilErr) =>
        /\ Err.ParseError
        /\ Err.Err \in {ErrUnexpectedCharacter, ErrUnexpectedEOF,
                        ErrInvalidCodepointExpression, ErrUnterminatedQuad,
                        ErrRelativeIRI}

\* the input starts with a literal in the subject, predicate or graph slot
LiteralInSlot ==
    \E k \in {0, 1, 3}, w \in {<<>>, SP} :
        StartsWith(input, TermsPrefix(IriTerms, k) \o w \o <<Ch.dquote>>)

\* C6: in a returned quad S and P are IRIs or blank nodes, O is an IRI, a
\* blank node or a literal, and G is an IRI, a blank node or Unknown; a
\* literal in the subject, predicate or graph slot fails with
\* ErrUnexpectedCharacter.
C6_TermKinds ==
    /\ ret => /\ Quad.S.Kind \in {IRITerm, BlankTerm}
              /\ Quad.P.Kind \in {IRITerm, BlankTerm}
              /\ Quad.O.Kind \in {IRITerm, BlankTerm, LiteralTerm}
              /\ Quad.G.Kind \in {IRITerm, BlankTerm, UnknownTerm}
    /\ (calls >= 1 /\ LiteralInSlot) =>
           (~ret /\ IsParseError(Err, ErrUnexpectedCharacter))

C6_Witness ==
    /\ calls = 1 /\ ~ret
    /\ StartsWith(input, TermsPrefix(IriTerms, 3) \o SP \o <<Ch.dquote>>)

\* C7: a statement whose subject, predicate, object or object datatype is
\* an IRI without ':' fails with ErrRelativeIRI, and the well-formed
\* statement (with the ':') succeeds.
C7_AbsolutenessGate ==
    \A k \in 1..MaxCalls :
        ReadsStatement(k) =>
            /\ RelativeSPO(quads[k]) => (~ret /\ IsParseError(Err, ErrRelativeIRI))
            /\ WellFormed(quads[k]) => ret

C7_Witness ==
    /\ calls = 1 /\ Len(quads) >= 1 /\ quads[1].O = oDR
    /\ ~ret /\ IsParseError(Err, ErrRelativeIRI)

\* C8: a statement whose graph IRI has no ':' fails with ErrRelativeIRI, and
\* no returned quad has a G that is an IRI without ':'.
C8_GraphAbsolute ==
    /\ \A k \in 1..MaxCalls :
           (ReadsStatement(k) /\ ~RelativeSPO(quads[k]) /\ RelativeIRITerm(quads[k].G))
               => (~ret /\ IsParseError(Err, ErrRelativeIRI))
    /\ ret => ~RelativeIRITerm(Quad.G)

\* C9: three terms and '.' give a quad whose G is Unknown, four terms and
\* '.' give a quad whose G is the fourth term, S, P and O being the first
\* three terms in order; after a single statement Next returns false with
\* no error.
C9_GraphOptional ==
    /\ (calls = 1 /\ Len(quads) >= 1 /\ WellFormed(quads[1])) =>
           /\ ret
           /\ Quad.S = quads[1].S /\ Quad.P = quads[1].P /\ Quad.O = quads[1].O
           /\ IF quads[1].G.Kind = UnknownTerm
              THEN Quad.G.Kind = UnknownTerm
              ELSE Quad.G = quads[1].G
    /\ (calls = 2 /\ Len(quads) = 1 /\ WellFormed(quads[1])) =>
           (~ret /\ Err = NilErr)

C9_Witness ==
    /\ calls = 2 /\ Len(quads) = 1 /\ WellFormed(quads[1])
    /\ quads[1].G.Kind = IRITerm /\ ~ret /\ Err = NilErr

\* the input is three or four terms, then at most spaces and tabs
EndsAfterTerms ==
    \E k \in {3, 4}, w \in {<<>>, SP, <<Ch.space, Ch.space>>} :
        input = TermsPrefix(IriTerms, k) \o w

\* C10: an input that ends after the object term or after the graph term,
\* with at most spaces and tabs following and no '.', fails with
\* ErrUnterminatedQuad.
C10_UnterminatedQuad ==
    (calls >= 1 /\ EndsAfterTerms) => (~ret /\ IsParseError(Err, ErrUnterminatedQuad))

\* the number of leading spaces and tabs of str
RECURSIVE LeadingBlanks(_)
LeadingBlanks(str) ==
    IF str # <<>> /\ Head(str) \in {Ch.space, Ch.tab}
    THEN 1 + LeadingBlanks(Tail(str))
    ELSE 0

\* str is a legal rest of a line after the '.': spaces and tabs, then end of
\* input, a newline (\n or \r\n) or a '#' comment
LegalAfterDot(str) ==
    LET n == LeadingBlanks(str) IN
    \/ Len(str) = n
    \/ str[n + 1] \in {Ch.lf, Ch.hash}
    \/ Len(str) >= n + 2 /\ str[n + 1] = Ch.cr /\ str[n + 2] = Ch.lf

\* the inputs that start with three or four terms and the '.'
StatementThenDot ==
    {TermsPrefix(IriTerms, k) \o w \o <<Ch.dot>> : k \in {3, 4}, w \in {<<>>, SP}}

\* C11: after the terminating '.', Next succeeds when the rest of the line
\* is spaces and tabs followed by a newline, a '#' comment or end of input,
\* and any other rune after the '.' (a second '.', another term, a lone
\* carriage return, any other character) makes Next return false with
\* ErrUnexpectedCharacter.
C11_RestOfLine ==
    \A st \in StatementThenDot :
        (calls = 1 /\ StartsWith(input, st)) =>
            IF LegalAfterDot(SubSeq(input, Len(st) + 1, Len(input)))
            THEN ret
            ELSE ~ret /\ IsParseError(Err, ErrUnexpectedCharacter)

(***************************************************************************)
(* Inputs of the third kind: one statement with a comment placed directly   *)
(* after its '.', as in the parse case "trailing-comment".                  *)
(***************************************************************************)
Comments ==
    { <<Ch.hash>>, <<Ch.hash, Ch.c>>, <<Ch.hash, Ch.space, Ch.c, Ch.lf>>,
      <<Ch.hash, Ch.c, Ch.cr, Ch.lf>> }

InitComment ==
    /\ \E qd \in Statements, lay \in {"canonical", "minimal"}, cm \in Comments :
           /\ quads = <<qd>>
           /\ input = Layout(qd, lay) \o cm
    /\ tc = NoCase
    /\ NewReader

SpecComment == InitComment /\ [][Next]_vars

\* C12: a statement that parses when its '.' is followed by end of input or
\* a newline also parses, to the same quad, when a '#' comment follows the
\* '.' directly, whatever the kind of its last term.
C12_CommentAfterDot ==
    (calls = 1 /\ WellFormed(quads[1])) => (ret /\ Quad = quads[1])

\* every term of qd ends with '>' in its text form
AllEndInGt(qd) ==
    /\ qd.S.Kind = IRITerm
    /\ qd.P.Kind = IRITerm
    /\ qd.O.Kind = IRITerm \/ (qd.O.Kind = LiteralTerm /\ qd.O.Datatype # <<>>)
    /\ qd.G.Kind \in {IRITerm, UnknownTerm}

\* the statement of qd without any whitespace
Abutted(qd) ==
    Term_String(qd.S) \o Term_String(qd.P) \o Term_String(qd.O)
        \o Term_String(qd.G) \o <<Ch.dot>>

\* the statements of qs without any whitespace, one per line
RECURSIVE AbuttedLines(_, _, _)
AbuttedLines(qs, eol, final) ==
    IF qs = <<>> THEN <<>>
    ELSE IF Len(qs) = 1 THEN Abutted(qs[1]) \o (IF final THEN eol ELSE <<>>)
    ELSE Abutted(qs[1]) \o eol \o AbuttedLines(Tail(qs), eol, final)

\* C13: statements whose terms all end in '>' parse to the same quads with
\* all whitespace between the terms and before the '.' removed as when
\* fully spaced.
C13_AbuttingTerms ==
    \A st \in Styles :
        ( /\ calls \in 1..Len(quads)
          /\ AllWellFormed(quads)
          /\ \A i \in 1..Len(quads) : AllEndInGt(quads[i])
          /\ input = IF st.lay = "minimal"
                     THEN AbuttedLines(quads, st.eol, st.final)
                     ELSE Document(quads, "canonical", st.eol, st.final) )
            => (ret /\ Quad = quads[calls])

C13_Witness ==
    /\ calls = 2 /\ Len(quads) = 2 /\ ret
    /\ quads[1].O = oDT /\ quads[2].G = gA
    /\ input = AbuttedLines(quads, LF, FALSE)
    /\ Quad = quads[2]

(***************************************************************************)
(* Inputs of the fourth kind: a subject, a predicate and one object term    *)
(* written from pieces (plain characters and escapes), whole and followed   *)
(* by the rest of the statement, or cut off inside the term, as in the      *)
(* tables of TestParseIRI and TestParseBlankNode and the escape cases of    *)
(* the parse cases.                                                         *)
(***************************************************************************)
ObjFront == TermsPrefix(IriTerms, 2) \o SP

\* the hexadecimal digit (upper case) of v in 0..15
HexDigit(v) == IF v < 10 THEN Ch.zero + v ELSE Ch.A + (v - 10)

\* n written with width hexadecimal digits
RECURSIVE Hex(_, _)
Hex(n, width) ==
    IF width = 0 THEN <<>>
    ELSE Hex(n \div 16, width - 1) \o <<HexDigit(n % 16)>>

\* str with the letters A-F in lower case
Lower(str) == [i \in 1..Len(str) |-> IF str[i] \in Ch.A..Ch.F THEN str[i] + 32 ELSE str[i]]

\* the escape \uXXXX of n
EscU(n) == <<Ch.backslash, Ch.u>> \o Hex(n, 4)

\* the escape \UXXXXXXXX of hi * 65536 + lo
EscBigU(hi, lo) == <<Ch.backslash, Ch.U>> \o Hex(hi, 4) \o Hex(lo, 4)

\* escapes with a character that is no hexadecimal digit
BadHexPieces ==
    { <<Ch.backslash, Ch.u, Ch.zero, Ch.zero, Ch.Z, Ch.one>>,
      <<Ch.backslash, Ch.u, Ch.zero, Ch.zero, Ch.cr, Ch.one>> }

IriPieces ==
    { <<Ch.a>>, <<Ch.backslash, Ch.n>>,
      EscU(65), EscU(233), Lower(EscU(233)), EscU(32), EscU(60), EscU(62), EscU(55296),
      EscBigU(16, 65535), EscBigU(17, 0), EscBigU(32768, 0), EscBigU(65535, 65535),
      <<Ch.backslash, Ch.U, Ch.zero, Ch.zero, Ch.Z, Ch.one, Ch.one, Ch.one, Ch.one, Ch.one>> }
        \cup BadHexPieces

LabelPieces == { <<Ch.a>>, <<Ch.dot>>, <<Ch.minus>> }

LiteralPieces ==
    { <<Ch.l>>,
      <<Ch.backslash, Ch.t>>, <<Ch.backslash, Ch.r>>, <<Ch.backslash, Ch.n>>,
      <<Ch.backslash, Ch.b>>, <<Ch.backslash, Ch.f>>, <<Ch.backslash, Ch.dquote>>,
      <<Ch.backslash, Ch.backslash>>,
      <<Ch.backslash, Ch.x>>, <<Ch.backslash, Ch.cr>>,
      EscU(233), EscU(34), EscU(55296), EscBigU(16, 65535) }
        \cup BadHexPieces

\* what may stand between the '<' and the '>' of a datatype: characters the
\* IRI lexer accepts, characters it rejects, and escapes
DatatypePieces ==
    { <<Ch.a>>, <<Ch.lbrace>>, <<Ch.pipe>>, <<Ch.caret>>, <<Ch.backtick>>,
      <<233>>, <<Ch.space>>, <<Ch.tab>>, <<Ch.lt>>, <<Ch.dquote>>,
      <<Ch.backslash>>, <<Ch.backslash, Ch.n>>, EscU(65),
      <<Ch.backslash, Ch.u, Ch.zero, Ch.zero, Ch.Z, Ch.one>> }

\* what a language tag may be written from
LanguagePieces ==
    { <<Ch.e>>, <<Ch.e, Ch.n>>, <<Ch.minus>>, <<Ch.minus, Ch.u>>, <<Ch.one>>, <<Ch.Z>> }

\* what an IRI may be written from: ordinary characters, an escape, the
\* raw characters an IRI must not hold, and a backslash before a character
\* that starts no escape
RawIriPieces ==
    { <<Ch.a>>, <<233>>, EscU(65),
      <<Ch.lt>>, <<Ch.dquote>>, <<Ch.lbrace>>, <<Ch.rbrace>>, <<Ch.pipe>>,
      <<Ch.caret>>, <<Ch.backtick>>,
      <<0>>, <<Ch.tab>>, <<Ch.lf>>, <<Ch.cr>>, <<Ch.space>>,
      <<Ch.backslash, Ch.n>>, <<Ch.backslash, Ch.t>>, <<Ch.backslash, Ch.r>>,
      <<Ch.backslash, Ch.slash>>, <<Ch.backslash, Ch.backslash>> }

Kinds == {"iri", "blank", "literal"}

Pieces(kind) ==
    IF kind = "iri" THEN IriPieces
    ELSE IF kind = "blank" THEN LabelPieces
    ELSE IF kind = "datatype" THEN DatatypePieces
    ELSE IF kind = "language" THEN LanguagePieces
    ELSE IF kind = "rawiri" THEN RawIriPieces
    ELSE LiteralPieces

\* what a term of the kind starts with
TermOpen(kind) ==
    IF kind = "iri" \/ kind = "rawiri" THEN <<Ch.lt, Ch.o, Ch.colon>>
    ELSE IF kind = "blank" THEN <<Ch.underscore, Ch.colon>>
    ELSE IF kind = "datatype"
    THEN <<Ch.dquote, Ch.l, Ch.dquote, Ch.caret, Ch.caret, Ch.lt, Ch.d, Ch.colon>>
    ELSE IF kind = "language" THEN <<Ch.dquote, Ch.l, Ch.dquote, Ch.at>>
    ELSE <<Ch.dquote>>

\* what a term of the kind ends with
Closes(kind) ==
    IF kind = "iri" \/ kind = "datatype" \/ kind = "rawiri" THEN {<<Ch.gt>>}
    ELSE IF kind = "blank" \/ kind = "language" THEN {<<>>}
    ELSE { <<Ch.dquote>>,
           <<Ch.dquote, Ch.at, Ch.e, Ch.n>>,
           <<Ch.dquote, Ch.caret, Ch.caret, Ch.lt, Ch.d, Ch.colon, Ch.t, Ch.gt>> }

\* what follows the term in a whole statement
Tails(kind) ==
    IF kind = "blank"
    THEN { <<Ch.space, Ch.dot>>, <<Ch.dot>>, <<Ch.dot, Ch.space>>, <<Ch.dot, Ch.tab>>,
           <<Ch.dot, Ch.lf>>, <<Ch.dot, Ch.cr, Ch.lf>>, <<Ch.dot, Ch.hash, Ch.c>>,
           <<Ch.dot, Ch.a, Ch.space, Ch.dot>> }
    ELSE { <<Ch.space, Ch.dot>>, <<Ch.dot>> }

Bodies(kind) == UNION {[1..n -> Pieces(kind)] : n \in 0..MaxPieces}

\* the text of the term of test case c
TermText(c) == TermOpen(c.kind) \o Concat(c.pieces) \o c.close

\* the input of test case c: the whole statement, or the statement cut off
\* after c.cut runes of the term
CaseInput(c) ==
    IF c.cut < 0 THEN ObjFront \o TermText(c) \o c.tail
    ELSE ObjFront \o SubSeq(TermText(c), 1, c.cut)

\* the test case of kind k with body b, closing cl and tail tl, cut off
\* after n runes of the term (n < 0: whole)
Case(k, b, cl, tl, n) == [kind |-> k, pieces |-> b, close |-> cl, tail |-> tl, cut |-> n]

\* the length of the term's text up to the first rune of its last piece
BeforeLastPiece(k, b) ==
    IF b = <<>> THEN 0
    ELSE Len(TermOpen(k) \o Concat(SubSeq(b, 1, Len(b) - 1))) + 1

\* a whole statement, a statement cut off in the last piece of the body (or
\* in the opening, for an empty body), or a statement cut off in or right
\* after the closing of the term
InitTerm ==
    /\ \E k \in Kinds : \E b \in Bodies(k) :
           \/ \E cl \in Closes(k), tl \in Tails(k) : tc = Case(k, b, cl, tl, -1)
           \/ \E n \in BeforeLastPiece(k, b)..Len(TermOpen(k) \o Concat(b)) :
                  tc = Case(k, b, <<>>, <<>>, n)
           \/ \E cl \in Closes(k) :
                  \E n \in (Len(TermOpen(k) \o Concat(b)) + 1)
                              ..Len(TermOpen(k) \o Concat(b) \o cl) :
                      tc = Case(k, b, cl, <<>>, n)
    /\ input = CaseInput(tc)
    /\ quads = <<>>
    /\ NewReader

SpecTerm == InitTerm /\ [][Next]_vars

(***************************************************************************)
(* Inputs of the sixth kind: a statement whose object is a literal with a   *)
(* datatype, written around the text between the '<' and the '>' of the     *)
(* datatype, whole or cut off in the last piece.                            *)
(***************************************************************************)
InitDatatype ==
    /\ \E b \in Bodies("datatype") :
           \/ tc = Case("datatype", b, <<Ch.gt>>, <<Ch.space, Ch.dot>>, -1)
           \/ \E n \in BeforeLastPiece("datatype", b)
                          ..Len(TermOpen("datatype") \o Concat(b)) :
                  tc = Case("datatype", b, <<>>, <<>>, n)
    /\ input = CaseInput(tc)
    /\ quads = <<>>
    /\ NewReader

SpecDatatype == InitDatatype /\ [][Next]_vars

(***************************************************************************)
(* Inputs of the seventh kind: a statement whose object is a literal with a *)
(* language tag, written from pieces, whole or cut off in the last piece.   *)
(***************************************************************************)
InitLanguage ==
    /\ \E b \in Bodies("language") :
           \/ \E tl \in Tails("language") : tc = Case("language", b, <<>>, tl, -1)
           \/ \E n \in BeforeLastPiece("language", b)
                          ..Len(TermOpen("language") \o Concat(b)) :
                  tc = Case("language", b, <<>>, <<>>, n)
    /\ input = CaseInput(tc)
    /\ quads = <<>>
    /\ NewReader

SpecLanguage == InitLanguage /\ [][Next]_vars

(***************************************************************************)
(* Inputs of the eighth kind: a statement whose object is an IRI written    *)
(* from raw characters and backslashes, whole or cut off in the last piece, *)
(* as in the table of TestParseIRI.                                         *)
(***************************************************************************)
InitRawIri ==
    /\ \E b \in Bodies("rawiri") :
           \/ tc = Case("rawiri", b, <<Ch.gt>>, <<Ch.space, Ch.dot>>, -1)
           \/ \E n \in BeforeLastPiece("rawiri", b)
                          ..Len(TermOpen("rawiri") \o Concat(b)) :
                  tc = Case("rawiri", b, <<>>, <<>>, n)
    /\ input = CaseInput(tc)
    /\ quads = <<>>
    /\ NewReader

SpecRawIri == InitRawIri /\ [][Next]_vars

(***************************************************************************)
(* The round trip: a caller renders the object term of the quad it was      *)
(* given and reads the rendered statement with a new reader.  The test case *)
(* keeps the rendered term in tail.                                         *)
(***************************************************************************)
RoundTrip ==
    /\ tc.kind \in Kinds
    /\ calls >= 1
    /\ ret
    /\ tc' = [kind |-> "round", pieces |-> <<>>, close |-> <<>>,
              tail |-> Term_String(Quad.O), cut |-> -1]
    /\ input' = ObjFront \o Term_String(Quad.O) \o <<Ch.space, Ch.dot>>
    /\ rpos' = 0
    /\ lastRuneSize' = -1
    /\ line' = 0
    /\ column' = 0
    /\ buf' = <<>>
    /\ err' = NilErr
    /\ q' = ZeroQuad
    /\ ret' = FALSE
    /\ calls' = 0
    /\ UNCHANGED quads

NextRound == NextCall \/ RoundTrip

SpecRound == InitTerm /\ [][NextRound]_vars

(***************************************************************************)
(* Properties of the terms.                                                 *)
(***************************************************************************)

\* the input after the opening of the object term
AfterOpen == SubSeq(input, Len(ObjFront \o TermOpen(tc.kind)) + 1, Len(input))

\* the length of the blank-node label that starts at str[i], where a '.' is
\* part of the label unless end of input, a space, a tab, a newline or a
\* carriage return follows it
RECURSIVE LabelEnd(_, _)
LabelEnd(str, i) ==
    IF i > Len(str) THEN i - 1
    ELSE IF str[i] = Ch.dot
    THEN IF i = Len(str) \/ str[i + 1] \in {Ch.space, Ch.tab, Ch.lf, Ch.cr}
         THEN i - 1
         ELSE LabelEnd(str, i + 1)
    ELSE IF isPnChars(str[i]) THEN LabelEnd(str, i + 1)
    ELSE i - 1

\* a whole statement whose object is a blank node with a legal first
\* character
BlankNodeCase ==
    /\ tc.kind = "blank" /\ calls = 1
    /\ tc.pieces # <<>> /\ tc.pieces[1] = <<Ch.a>>

\* C14: in a blank-node label a '.' followed by end of input, space, tab,
\* newline or carriage return is not part of the label and is the next rune
\* read (the statement's terminator), and a '.' followed by any other
\* character is part of the label and scanning continues.
C14_BlankNodePeriod ==
    /\ (tc.kind = "blank" /\ calls = 1 /\ Quad.O.Kind = BlankTerm) =>
           Quad.O.Value = SubSeq(AfterOpen, 1, LabelEnd(AfterOpen, 1))
    /\ ( /\ BlankNodeCase /\ tc.cut < 0
         /\ tc.tail \in { <<Ch.dot>>, <<Ch.dot, Ch.space>>, <<Ch.dot, Ch.tab>>,
                          <<Ch.dot, Ch.lf>>, <<Ch.dot, Ch.cr, Ch.lf>> } ) =>
           (ret /\ Quad.O = Blank(Concat(tc.pieces)))
    /\ ( /\ BlankNodeCase /\ tc.cut = Len(TermText(tc))
         /\ tc.pieces[Len(tc.pieces)] = <<Ch.dot>> ) =>
           (ret /\ Quad.O = Blank(Concat(SubSeq(tc.pieces, 1, Len(tc.pieces) - 1))))
    /\ (BlankNodeCase /\ tc.tail = <<Ch.dot, Ch.a, Ch.space, Ch.dot>>) =>
           (ret /\ Quad.O = Blank(Concat(tc.pieces) \o <<Ch.dot, Ch.a>>))
    /\ (BlankNodeCase /\ tc.tail = <<Ch.dot, Ch.hash, Ch.c>>) =>
           (~ret /\ IsParseError(Err, ErrUnexpectedCharacter))

C14_Witness ==
    /\ BlankNodeCase /\ tc.pieces = <<<<Ch.a>>, <<Ch.dot>>>>
    /\ tc.tail = <<Ch.dot, Ch.a, Ch.space, Ch.dot>>
    /\ ret /\ Quad.O = Blank(<<Ch.a, Ch.dot, Ch.dot, Ch.a>>)


\* the label of a blank-node term ends with '.'
EndsWithDot(t) ==
    /\ t.Kind = BlankTerm
    /\ t.Value # <<>>
    /\ t.Value[Len(t.Value)] = Ch.dot

\* C15: no blank-node term of a quad returned by a successful Next has a
\* label that ends with '.'.
C15_NoTrailingPeriod ==
    (calls >= 1 /\ ret) =>
        (~EndsWithDot(Quad.S) /\ ~EndsWithDot(Quad.O) /\ ~EndsWithDot(Quad.G))


\* the characters an IRI value never contains
ForbiddenInIRI(ch) == ch \in {Ch.lt, Ch.gt, Ch.dquote} \/ ch <= 32

\* an IRI term whose value is free of the forbidden characters (any other
\* term passes)
CleanIRI(t) ==
    t.Kind = IRITerm => \A i \in 1..Len(t.Value) : ~ForbiddenInIRI(t.Value[i])

\* C16: the value of an IRI term returned by the parser never contains '<',
\* '>', a double quote or a code point <= 0x20, numeric escapes included.
C16_IRIValueCharacters ==
    (calls >= 1 /\ ret) =>
        (CleanIRI(Quad.S) /\ CleanIRI(Quad.P) /\ CleanIRI(Quad.O) /\ CleanIRI(Quad.G))


\* the code point each simple escape stands for
SimpleEscape ==
    [ch \in {Ch.t, Ch.r, Ch.n, Ch.b, Ch.f, Ch.dquote, Ch.backslash} |->
        CASE ch = Ch.t -> 9
          [] ch = Ch.r -> 13
          [] ch = Ch.n -> 10
          [] ch = Ch.b -> 8
          [] ch = Ch.f -> 12
          [] ch = Ch.dquote -> 34
          [] ch = Ch.backslash -> 92]

\* a piece of a literal that is a plain character or a simple escape
IsPlainPiece(p) ==
    \/ p = <<Ch.l>>
    \/ Len(p) = 2 /\ p[1] = Ch.backslash /\ p[2] \in DOMAIN SimpleEscape

\* a backslash followed by a character that is no escape
IsBadEscape(p) ==
    Len(p) = 2 /\ p[1] = Ch.backslash /\ p[2] \notin (DOMAIN SimpleEscape \cup {Ch.u, Ch.U})

\* the lexical value plain pieces stand for
RECURSIVE DecodePlain(_)
DecodePlain(ps) ==
    IF ps = <<>> THEN <<>>
    ELSE (IF Len(Head(ps)) = 1 THEN Head(ps) ELSE <<SimpleEscape[Head(ps)[2]]>>)
            \o DecodePlain(Tail(ps))

\* the input holds the pieces up to piece i
HoldsPiece(i) ==
    tc.cut < 0 \/ tc.cut >= Len(TermOpen(tc.kind) \o Concat(SubSeq(tc.pieces, 1, i)))

\* C17: in a literal the escapes \t \r \n \b \f \" \\ decode to tab, carriage
\* return, line feed, backspace, form feed, double quote and backslash, one
\* code point each in input order, and a backslash followed by any other
\* character (u and U aside) makes Next fail with ErrUnexpectedCharacter.
C17_SimpleEscapes ==
    (tc.kind = "literal" /\ calls = 1) =>
        /\ ( /\ tc.cut < 0 /\ tc.tail = <<Ch.space, Ch.dot>>
             /\ \A i \in 1..Len(tc.pieces) : IsPlainPiece(tc.pieces[i]) ) =>
               /\ ret
               /\ Quad.O.Kind = LiteralTerm
               /\ Quad.O.Value = DecodePlain(tc.pieces)
        /\ \A i \in 1..Len(tc.pieces) :
               ( /\ IsBadEscape(tc.pieces[i]) /\ HoldsPiece(i)
                 /\ \A j \in 1..(i - 1) : IsPlainPiece(tc.pieces[j]) ) =>
                   (~ret /\ IsParseError(Err, ErrUnexpectedCharacter))


\* str with the letters a-f in upper case
Upper(str) == [i \in 1..Len(str) |-> IF str[i] \in Ch.a..Ch.f THEN str[i] - 32 ELSE str[i]]

IsHexChar(ch) == ch \in Ch.zero..Ch.nine \/ ch \in Ch.a..Ch.f \/ ch \in Ch.A..Ch.F

\* a \u escape with 4 hexadecimal digits or a \U escape with 8
IsHexEscape(p) ==
    /\ Len(p) >= 2 /\ p[1] = Ch.backslash
    /\ \/ p[2] = Ch.u /\ Len(p) = 6
       \/ p[2] = Ch.U /\ Len(p) = 10
    /\ \A i \in 3..Len(p) : IsHexChar(p[i])

\* the digits of an escape
Digits(p) == SubSeq(p, 3, Len(p))

\* the value of the object term without the fixed start of the term's text
Appended == SubSeq(Quad.O.Value, Len(TermOpen(tc.kind)), Len(Quad.O.Value))

\* C18: the code point appended for 4 hex digits after \u or 8 hex digits
\* after \U, in an IRI or a literal, is the big-endian value of the digits:
\* written back in hexadecimal it gives the digits again, with no wrap-around
\* and no other code point in its place.
C18_CodePointValue ==
    ( /\ tc.kind \in {"iri", "literal"} /\ calls = 1 /\ tc.cut < 0 /\ ret
      /\ \A i \in 1..Len(tc.pieces) :
            Len(tc.pieces[i]) = 1 \/ IsHexEscape(tc.pieces[i]) ) =>
        /\ Len(Appended) = Len(tc.pieces)
        /\ \A i \in 1..Len(tc.pieces) :
              IF IsHexEscape(tc.pieces[i])
              THEN Hex(Appended[i], Len(Digits(tc.pieces[i]))) = Upper(Digits(tc.pieces[i]))
              ELSE <<Appended[i]>> = tc.pieces[i]


\* the length of the term's text before piece i
PieceStart(i) == Len(TermOpen(tc.kind) \o Concat(SubSeq(tc.pieces, 1, i - 1)))

\* the part of piece i that the input holds
ShownPiece(i) ==
    IF tc.cut < 0 \/ tc.cut >= PieceStart(i) + Len(tc.pieces[i]) THEN tc.pieces[i]
    ELSE IF tc.cut <= PieceStart(i) THEN <<>>
    ELSE SubSeq(tc.pieces[i], 1, tc.cut - PieceStart(i))

\* piece i starts a \u or \U escape in the input, after pieces that are
\* single characters or escapes with all their hexadecimal digits
EscapeAt(i) ==
    /\ Len(ShownPiece(i)) >= 2
    /\ ShownPiece(i)[1] = Ch.backslash
    /\ ShownPiece(i)[2] \in {Ch.u, Ch.U}
    /\ \A j \in 1..(i - 1) : Len(tc.pieces[j]) = 1 \/ IsHexEscape(tc.pieces[j])

\* C19: a \u or \U escape, in an IRI or a literal, with a character that is
\* no hexadecimal digit among its 4 or 8 digit positions fails with
\* ErrInvalidCodepointExpression, and end of input inside the digits fails
\* with ErrUnexpectedEOF.
C19_BadDigits ==
    (tc.kind \in {"iri", "literal"} /\ calls = 1) =>
        \A i \in 1..Len(tc.pieces) :
            EscapeAt(i) =>
                IF \E k \in 3..Len(ShownPiece(i)) : ~IsHexChar(ShownPiece(i)[k])
                THEN ~ret /\ IsParseError(Err, ErrInvalidCodepointExpression)
                ELSE Len(ShownPiece(i)) < Len(tc.pieces[i]) =>
                        (~ret /\ IsParseError(Err, ErrUnexpectedEOF))


\* piece i, as far as the input holds it, is legal in a term of the kind
ShownLegal(i) ==
    IF Len(ShownPiece(i)) < Len(tc.pieces[i])
    THEN \A k \in 3..Len(ShownPiece(i)) : IsHexChar(ShownPiece(i)[k])
    ELSE CASE tc.kind = "iri" -> Len(tc.pieces[i]) = 1 \/ IsHexEscape(tc.pieces[i])
           [] tc.kind = "literal" -> IsPlainPiece(tc.pieces[i]) \/ IsHexEscape(tc.pieces[i])
           [] OTHER -> i = 1 => tc.pieces[i] = <<Ch.a>>

\* the input ends inside the object term: before the '>' of an IRI, after
\* '_', '_:' or a label character of a blank node, inside the quotes of a
\* literal, right after its closing quote, in its language tag or inside the
\* '^^<...' of its datatype
EndsInsideTerm ==
    /\ tc.kind \in Kinds /\ tc.cut >= 1
    /\ \A i \in 1..Len(tc.pieces) : ShownLegal(i)
    /\ CASE tc.kind = "iri" -> tc.cut <= Len(TermOpen(tc.kind) \o Concat(tc.pieces))
         [] tc.kind = "blank" -> input[Len(input)] # Ch.dot
         [] OTHER -> \/ tc.cut <= Len(TermOpen(tc.kind) \o Concat(tc.pieces))
                     \/ tc.close \in {<<Ch.dquote>>, <<Ch.dquote, Ch.at, Ch.e, Ch.n>>}
                     \/ tc.cut < Len(TermText(tc))

\* C20: end of input reached inside a term yields ErrUnexpectedEOF: before
\* the closing '>' of an IRI, right after '_' or '_:' or anywhere in a
\* blank-node label, inside the quotes of a literal, right after the closing
\* quote, inside a language tag, or inside '^^<...' of a datatype.
C20_EOFInsideTerm ==
    (calls = 1 /\ EndsInsideTerm) => (~ret /\ IsParseError(Err, ErrUnexpectedEOF))

C20_Witness ==
    /\ calls = 1 /\ EndsInsideTerm
    /\ tc.kind = "literal" /\ tc.pieces = <<<<Ch.l>>>>
    /\ tc.close = <<Ch.dquote, Ch.caret, Ch.caret, Ch.lt, Ch.d, Ch.colon, Ch.t, Ch.gt>>
    /\ tc.cut = Len(TermText(tc)) - 1
    /\ ~ret /\ IsParseError(Err, ErrUnexpectedEOF)


(***************************************************************************)
(* Inputs of the fifth kind: a statement, well-formed or not, after lines   *)
(* that are blank, hold only white space, hold a comment, or hold an        *)
(* earlier statement with a trailing comment, as in the parse cases         *)
(* "leading-comment", "leading-multiple-comments" and "trailing-comment".   *)
(* The test case keeps the lines in pieces and the statement in tail.       *)
(***************************************************************************)
SkippedLines ==
    { LF, CRLF, <<Ch.space, Ch.lf>>, <<Ch.tab, Ch.space, Ch.cr, Ch.lf>>,
      <<Ch.hash, Ch.lf>>, <<Ch.hash, Ch.c, Ch.cr, Ch.lf>>,
      <<Ch.space, Ch.tab, Ch.hash, Ch.space, Ch.c, Ch.lf>> }

CommentedStatements ==
    { Quad_String(BaseQuad) \o <<Ch.space, Ch.hash, Ch.c, Ch.lf>>,
      Minimal_String(BaseQuad) \o <<Ch.hash, Ch.cr, Ch.lf>> }

LeadLines == SkippedLines \cup CommentedStatements \cup {Quad_String(BaseQuad) \o LF}

\* texts that are no statement
BadStatements ==
    { <<Ch.x>>, <<Ch.space, Ch.x>>, <<Ch.dot>>,
      Term_String(sA) \o <<Ch.space, Ch.x>>,
      TermsPrefix(IriTerms, 3) \o <<Ch.space, Ch.x>>,
      TermsPrefix(IriTerms, 3) \o <<Ch.space, Ch.dot, Ch.space, Ch.x>>,
      TermsPrefix(IriTerms, 3),
      TermsPrefix(IriTerms, 2) \o <<Ch.space, Ch.dquote, Ch.l>>,
      TermsPrefix(IriTerms, 2) \o <<Ch.space, Ch.lt, Ch.o, Ch.cr, Ch.lf>> }

\* the empty IRI
EmptyIRI == <<Ch.lt, Ch.gt>>

\* statements with an empty IRI as subject, predicate, object, graph or
\* datatype
EmptyIRIStatements ==
    { EmptyIRI \o TermsSuffix(IriTerms, 2),
      TermsPrefix(IriTerms, 1) \o SP \o EmptyIRI \o TermsSuffix(IriTerms, 3),
      TermsPrefix(IriTerms, 2) \o SP \o EmptyIRI \o TermsSuffix(IriTerms, 4),
      TermsPrefix(IriTerms, 3) \o SP \o EmptyIRI \o TermsSuffix(IriTerms, 5),
      TermsPrefix(IriTerms, 2) \o SP
          \o <<Ch.dquote, Ch.l, Ch.dquote, Ch.caret, Ch.caret>> \o EmptyIRI
          \o TermsSuffix(IriTerms, 4) }

LastLines ==
    {Quad_String(qd) : qd \in Statements}
        \cup {Quad_String(BaseQuad) \o LF, <<Ch.tab>> \o Quad_String(BaseQuad) \o CRLF}
        \cup BadStatements
        \cup EmptyIRIStatements

Leads == UNION {[1..n -> LeadLines] : n \in 0..MaxLead}

InitLines ==
    /\ \E ls \in Leads, st \in LastLines :
           tc = [kind |-> "lines", pieces |-> ls, close |-> <<>>, tail |-> st, cut |-> -1]
    /\ input = Concat(tc.pieces) \o tc.tail
    /\ quads = <<>>
    /\ NewReader

SpecLines == InitLines /\ [][Next]_vars

(***************************************************************************)
(* Properties of the reported position.                                     *)
(***************************************************************************)

\* the 1-based index in the input of the rune at which the error was
\* detected: the last rune handed out, or the end of input behind it
DetectedAt ==
    IF Err.Err \in {ErrUnexpectedEOF, ErrUnterminatedQuad} THEN rpos + 1 ELSE rpos

\* the number of line terminators among the first n runes of str
RECURSIVE LineEnds(_, _)
LineEnds(str, n) ==
    IF n <= 0 THEN 0
    ELSE LineEnds(str, n - 1) + (IF str[n] = Ch.lf THEN 1 ELSE 0)

\* C21: the Line of a ParseError is the 1-based number of the input line on
\* which the error was detected: 1 + the number of line terminators consumed
\* before it, blank lines and lines with a trailing comment included.
C21_ErrorLine ==
    (calls >= 1 /\ Err.ParseError) =>
        Err.Line = 1 + LineEnds(input, DetectedAt - 1)


\* the index in str of the first rune of the line that holds index i
RECURSIVE LineStartOf(_, _)
LineStartOf(str, i) ==
    IF i <= 1 THEN 1
    ELSE IF str[i - 1] = Ch.lf THEN i
    ELSE LineStartOf(str, i - 1)

\* index j of str holds a carriage return that is folded into the newline
\* after it
FoldedCR(str, j) == str[j] = Ch.cr /\ j < Len(str) /\ str[j + 1] = Ch.lf

\* the 0-based rune index of index i of str within its line, \r\n counting
\* as one rune
RuneIndex(str, i) ==
    Cardinality({j \in LineStartOf(str, i)..(i - 1) : ~FoldedCR(str, j)})

\* C22: the Column of a ParseError is the 0-based rune index, within its
\* line, of the rune at which the error was detected, a folded \r\n counting
\* as one rune; an illegal first character of a line is at column 0.
C22_ErrorColumn ==
    (calls >= 1 /\ Err.ParseError) => Err.Column = RuneIndex(input, DetectedAt)


(***************************************************************************)
(* Properties of the lines before a statement.                              *)
(***************************************************************************)

\* a reader on the statement alone: a fresh reader placed where the
\* statement starts
StatementAlone ==
    [rpos |-> Len(Concat(tc.pieces)), lastRuneSize |-> -1, line |-> 0,
     column |-> 0, buf |-> <<>>]

\* the input is a statement after blank lines, whitespace-only lines and
\* comment lines only
AfterSkippedLines ==
    /\ tc.kind = "lines"
    /\ \A i \in 1..Len(tc.pieces) : tc.pieces[i] \in SkippedLines

\* C23: blank lines, whitespace-only lines and '#' comment lines, indented
\* or not, before a statement are skipped: the first Next returns what it
\* returns for the statement alone, with the same quad.
C23_LeadingLinesSkipped ==
    (calls = 1 /\ AfterSkippedLines) =>
        /\ ret = ReaderNext(StatementAlone, NilErr, ZeroQuad).ret
        /\ Quad = ReaderNext(StatementAlone, NilErr, ZeroQuad).q

C23_Witness ==
    /\ calls = 1 /\ AfterSkippedLines
    /\ tc.pieces = << <<Ch.tab, Ch.space, Ch.cr, Ch.lf>>,
                      <<Ch.space, Ch.tab, Ch.hash, Ch.space, Ch.c, Ch.lf>> >>
    /\ tc.tail = Quad_String(MkQuad(sB, pA, oLang, gB))
    /\ ret /\ Quad = MkQuad(sB, pA, oLang, gB)


\* the start of a statement up to a place where a term, or the '.', must
\* follow on the same line: after one to four terms, after a literal, or
\* directly after a blank-node label
BeforeNewline ==
    {TermsPrefix(IriTerms, k) : k \in 1..4}
        \cup {TermsPrefix(BlankTerms, 3)}
        \cup {TermsPrefix(IriTerms, k) \o Term_String(Blank(<<Ch.b>>)) : k \in 0..3}

\* C24: a newline between two terms of a statement, directly after a
\* blank-node label, or before the terminating '.', makes Next return false
\* with ErrUnexpectedCharacter, detected at the newline.
C24_NewlineInStatement ==
    \A st \in BeforeNewline : \A nl \in {LF, SP \o LF, CRLF} :
        (calls = 1 /\ StartsWith(input, st \o nl)) =>
            /\ ~ret
            /\ IsParseError(Err, ErrUnexpectedCharacter)
            /\ rpos = Len(st \o nl)

C24_Witness ==
    /\ calls = 1
    /\ input = TermsPrefix(IriTerms, 2) \o LF \o TermsSuffix(IriTerms, 3)
    /\ ~ret /\ IsParseError(Err, ErrUnexpectedCharacter)
    /\ rpos = Len(TermsPrefix(IriTerms, 2)) + 1


(***************************************************************************)
(* Properties of the round trip.                                            *)
(***************************************************************************)

\* C25: a term the parser returned, rendered in canonical text form and
\* parsed as the object of a statement, gives a term that renders to the
\* same text.
C25_RoundTrip ==
    (tc.kind = "round" /\ calls = 1) => (ret /\ Term_String(Quad.O) = tc.tail)


(***************************************************************************)
(* Properties of the datatype.                                              *)
(***************************************************************************)

\* parseIRI started right after the '<' of the datatype, as for a
\* standalone IRI with the same text
StandaloneIRI ==
    parseIRI([rpos |-> Len(ObjFront) + 6, lastRuneSize |-> 1, line |-> 1,
              column |-> Len(ObjFront) + 6, buf |-> <<>>])

\* C26: the datatype IRI after '^^' is lexed with the rules of a standalone
\* IRI: for the same characters between '<' and '>' the datatype is accepted
\* exactly when parseIRI accepts, with the decoded value of parseIRI, and is
\* rejected with the error kind of parseIRI.
C26_DatatypeLikeIRI ==
    (tc.kind = "datatype" /\ calls = 1 /\ (tc.cut < 0 \/ tc.cut >= 6)) =>
        IF StandaloneIRI.err = NilErr
        THEN ret /\ Quad.O = LiteralWithDatatype(<<Ch.l>>, StandaloneIRI.term.Value)
        ELSE ~ret /\ Err.ParseError /\ Err.Err = StandaloneIRI.err.Err


(***************************************************************************)
(* Properties of the language tag.                                          *)
(***************************************************************************)
IsAsciiLetter(ch) == ch \in 65..90 \/ ch \in 97..122

IsAsciiAlnum(ch) == IsAsciiLetter(ch) \/ ch \in 48..57

\* one or more letters, then nothing or '-' and one or more alphanumerics
WellFormedTag(t) ==
    \E k \in 1..Len(t) :
        /\ \A j \in 1..k : IsAsciiLetter(t[j])
        /\ \/ k = Len(t)
           \/ /\ k + 2 <= Len(t)
              /\ t[k + 1] = Ch.minus
              /\ \A j \in (k + 2)..Len(t) : IsAsciiAlnum(t[j])

\* C27: the language tag of a returned language-tagged literal is one or
\* more ASCII letters, optionally followed by '-' and one or more ASCII
\* alphanumerics: no returned tag starts with '-', ends with '-' or is empty.
C27_LanguageTag ==
    (calls = 1 /\ ret /\ tc.kind = "language") =>
        /\ Quad.O.Kind = LiteralTerm
        /\ WellFormedTag(Quad.O.Language)


(***************************************************************************)
(* Properties of the characters of an IRI.                                  *)
(***************************************************************************)

\* a raw character an IRI must not hold
RejectedInIRI(ch) ==
    \/ ch <= 32
    \/ ch \in {Ch.lt, Ch.dquote, Ch.lbrace, Ch.rbrace, Ch.pipe, Ch.caret, Ch.backtick}

\* a piece an IRI must be rejected for: a rejected raw character, or a
\* backslash before a character other than u and U
RejectedPiece(p) ==
    \/ Len(p) = 1 /\ RejectedInIRI(p[1])
    \/ Len(p) = 2 /\ p[1] = Ch.backslash /\ p[2] \notin {Ch.u, Ch.U}

\* the value the pieces stand for when none is rejected
RECURSIVE DecodeIri(_)
DecodeIri(ps) ==
    IF ps = <<>> THEN <<>>
    ELSE (IF Head(ps) = EscU(65) THEN <<65>> ELSE Head(ps)) \o DecodeIri(Tail(ps))

\* C28: in an IRI the raw characters '<', '"', '{', '}', '|', '^', '`' and
\* every code point <= 0x20 are rejected with ErrUnexpectedCharacter, and so
\* is a backslash followed by anything but u or U; an IRI with none of them
\* is accepted, its \u escapes decoded.
C28_IRICharacters ==
    (tc.kind = "rawiri" /\ calls = 1) =>
        /\ \A i \in 1..Len(tc.pieces) :
              ( /\ RejectedPiece(tc.pieces[i]) /\ HoldsPiece(i)
                /\ \A j \in 1..(i - 1) : ~RejectedPiece(tc.pieces[j]) ) =>
                  (~ret /\ IsParseError(Err, ErrUnexpectedCharacter))
        /\ (tc.cut < 0 /\ \A i \in 1..Len(tc.pieces) : ~RejectedPiece(tc.pieces[i])) =>
              (ret /\ Quad.O = IRI(<<Ch.o, Ch.colon>> \o DecodeIri(tc.pieces)))


(***************************************************************************)
(* Properties of the empty IRI.                                             *)
(***************************************************************************)

\* the index in str of the first '>' that directly follows a '<'
RECURSIVE EmptyIRIEnd(_, _)
EmptyIRIEnd(str, i) ==
    IF i >= Len(str) THEN 0
    ELSE IF str[i] = Ch.lt /\ str[i + 1] = Ch.gt THEN i + 1
    ELSE EmptyIRIEnd(str, i + 1)

NonEmptyIRI(t) == t.Kind = IRITerm => t.Value # <<>>

\* C29: an empty IRI as subject, predicate, object or graph, and an empty
\* datatype IRI, make Next return false with ErrUnexpectedCharacter, detected
\* at the '>'; no returned IRI term has an empty value.
C29_EmptyIRI ==
    /\ (calls = 1 /\ AfterSkippedLines /\ tc.tail \in EmptyIRIStatements) =>
          /\ ~ret
          /\ IsParseError(Err, ErrUnexpectedCharacter)
          /\ rpos = Len(Concat(tc.pieces)) + EmptyIRIEnd(tc.tail, 1)
    /\ (calls >= 1 /\ ret) =>
          (NonEmptyIRI(Quad.S) /\ NonEmptyIRI(Quad.P) /\ NonEmptyIRI(Quad.O)
              /\ NonEmptyIRI(Quad.G))

C29_Witness ==
    /\ calls = 1 /\ tc.kind = "lines" /\ tc.pieces = <<>>
    /\ tc.tail = TermsPrefix(IriTerms, 3) \o SP \o EmptyIRI \o TermsSuffix(IriTerms, 5)
    /\ ~ret /\ IsParseError(Err, ErrUnexpectedCharacter)
    /\ rpos = Len(TermsPrefix(IriTerms, 3)) + 3


(***************************************************************************)
(* Properties of escaped delimiters.                                        *)
(***************************************************************************)

\* an escape that stands for the closing delimiter of a term of the kind
IsEscapedDelimiter(kind, p) ==
    IF kind = "iri" THEN p = EscU(62)
    ELSE p = <<Ch.backslash, Ch.dquote>> \/ p = EscU(34)

\* the value of pieces that are single characters or escaped delimiters
RECURSIVE DecodeDelimiters(_, _)
DecodeDelimiters(kind, ps) ==
    IF ps = <<>> THEN <<>>
    ELSE (IF Len(Head(ps)) = 1 THEN Head(ps)
          ELSE IF kind = "iri" THEN <<Ch.gt>> ELSE <<Ch.dquote>>)
            \o DecodeDelimiters(kind, Tail(ps))

\* a whole statement whose object is written from single characters and at
\* least one escaped delimiter
EscapedDelimiterCase ==
    /\ tc.kind \in {"iri", "literal"} /\ tc.cut < 0
    /\ tc.tail = <<Ch.space, Ch.dot>>
    /\ \A i \in 1..Len(tc.pieces) :
          Len(tc.pieces[i]) = 1 \/ IsEscapedDelimiter(tc.kind, tc.pieces[i])
    /\ \E i \in 1..Len(tc.pieces) : IsEscapedDelimiter(tc.kind, tc.pieces[i])

\* C30: a code point produced by an escape is content and no delimiter: an
\* escaped double quote (\" or \u0022) does not close a literal and an
\* escaped '>' (\u003E) does not close an IRI; the term ends at the next
\* unescaped delimiter and its value holds the escaped one.
C30_EscapedDelimiters ==
    (calls = 1 /\ EscapedDelimiterCase) =>
        /\ ret
        /\ Quad.O.Kind = (IF tc.kind = "iri" THEN IRITerm ELSE LiteralTerm)
        /\ Appended = DecodeDelimiters(tc.kind, tc.pieces)
        /\ Term_String(Quad.O) = TermOpen(tc.kind) \o Appended \o tc.close

C30_Witness ==
    /\ calls = 1 /\ EscapedDelimiterCase
    /\ tc.kind = "literal"
    /\ tc.pieces = << EscU(34), <<Ch.backslash, Ch.dquote>> >>
    /\ tc.close = <<Ch.dquote, Ch.at, Ch.e, Ch.n>>
    /\ ret /\ Quad.O = LiteralWithLanguage(<<Ch.dquote, Ch.dquote>>, <<Ch.e, Ch.n>>)

(***************************************************************************)
(* Inputs of the ninth kind: a blank node or a plain literal followed       *)
(* directly by one rune and the rest of a statement, as in the negative     *)
(* syntax case "_:abc<http://example.org/property>".  The test case keeps   *)
(* the text before the term and the term in pieces, the following rune in   *)
(* close and the rest in tail.                                              *)
(***************************************************************************)
FollowedTerms ==
    { [front |-> <<>>, term |-> sB],
      [front |-> TermsPrefix(IriTerms, 1) \o SP, term |-> pB],
      [front |-> ObjFront, term |-> oB],
      [front |-> ObjFront, term |-> Blank(<<Ch.a, Ch.minus>>)],
      [front |-> ObjFront, term |-> oL],
      [front |-> ObjFront, term |-> Literal(<<>>)] }

\* the runes written directly after the term
Followers ==
    { Ch.space, Ch.tab, Ch.dot, Ch.at, Ch.caret, Ch.lt, Ch.gt, Ch.dquote,
      Ch.underscore, Ch.hash, Ch.comma, Ch.backslash, Ch.lf, Ch.cr, Ch.a, 0, 233 }

\* what is written after the following rune
Rests ==
    { <<>>, <<Ch.space, Ch.dot>>, <<Ch.e, Ch.n, Ch.space, Ch.dot>>,
      <<Ch.caret, Ch.lt, Ch.d, Ch.colon, Ch.t, Ch.gt, Ch.space, Ch.dot>>,
      TermsSuffix(IriTerms, 2), TermsSuffix(IriTerms, 3), TermsSuffix(IriTerms, 4),
      <<Ch.lf>> \o Quad_String(BaseQuad) }

InitFollow ==
    /\ \E ft \in FollowedTerms, f \in Followers, rest \in Rests :
           tc = [kind |-> "follow", pieces |-> <<ft.front, Term_String(ft.term)>>,
                 close |-> <<f>>, tail |-> rest, cut |-> -1]
    /\ input = Concat(tc.pieces) \o tc.close \o tc.tail
    /\ quads = <<>>
    /\ NewReader

SpecFollow == InitFollow /\ [][Next]_vars

(***************************************************************************)
(* Properties of what follows a term.                                       *)
(***************************************************************************)

\* the followed term of the test case is a blank node
FollowedBlank == tc.kind = "follow" /\ tc.pieces[2][1] = Ch.underscore

\* the followed term of the test case is a literal
FollowedLiteral == tc.kind = "follow" /\ tc.pieces[2][1] = Ch.dquote

\* the rune after the term can neither continue nor end it
IllegalFollower ==
    \/ /\ FollowedBlank
       /\ ~isPnChars(tc.close[1])
       /\ tc.close[1] \notin {Ch.space, Ch.tab, Ch.dot}
    \/ /\ FollowedLiteral
       /\ tc.close[1] \notin {Ch.dot, Ch.space, Ch.tab, Ch.at, Ch.caret}

\* the followed term is the object and the statement goes on well-formed
\* from the following rune on
FollowedWell ==
    /\ tc.kind = "follow" /\ tc.pieces[1] = ObjFront
    /\ \/ tc.close[1] \in {Ch.space, Ch.tab}
          /\ tc.tail \in {<<Ch.space, Ch.dot>>, TermsSuffix(IriTerms, 4)}
       \/ tc.close = <<Ch.dot>> /\ tc.tail \in {<<>>, <<Ch.lf>> \o Quad_String(BaseQuad)}

\* C31: a blank-node label must be ended by space, tab or the terminating
\* '.', and the closing quote of a literal must be followed by '.', space,
\* tab, '@' or '^'; any other following character, such as the '<' of an
\* abutting term, makes Next return false with ErrUnexpectedCharacter.
C31_TermFollowers ==
    /\ (calls = 1 /\ IllegalFollower) =>
           (~ret /\ IsParseError(Err, ErrUnexpectedCharacter))
    /\ (calls = 1 /\ FollowedWell) =>
           (ret /\ Term_String(Quad.O) = tc.pieces[2])
    /\ (calls = 1 /\ FollowedLiteral /\ tc.close = <<Ch.at>>
            /\ tc.tail = <<Ch.e, Ch.n, Ch.space, Ch.dot>>) =>
           (ret /\ Term_String(Quad.O) = tc.pieces[2] \o <<Ch.at, Ch.e, Ch.n>>)
    /\ (calls = 1 /\ FollowedLiteral /\ tc.close = <<Ch.caret>>
            /\ tc.tail = <<Ch.caret, Ch.lt, Ch.d, Ch.colon, Ch.t, Ch.gt, Ch.space, Ch.dot>>) =>
           (ret /\ Quad.O.Kind = LiteralTerm /\ Quad.O.Datatype = <<Ch.d, Ch.colon, Ch.t>>)

(***************************************************************************)
(* Properties of the reader after a failure.                                *)
(***************************************************************************)

\* C32: after Next has failed with an error, every later call to Next leaves
\* the reader unchanged: Err() and Quad() return the same values, the line
\* and column counters do not change, and no rune is read from the source.
C32_ClosedAfterError ==
    [][(Err # NilErr) =>
          /\ Err' = Err /\ Quad' = Quad
          /\ line' = line /\ column' = column
          /\ rpos' = rpos /\ lastRuneSize' = lastRuneSize /\ buf' = buf]_vars

C32_Witness ==
    /\ calls >= 2 /\ ~ret /\ IsParseError(Err, ErrUnexpectedCharacter)
    /\ line = 1 /\ Quad.S = sA /\ Quad.P = pA
    /\ rpos < Len(input)

\* C33: every ParseError of the reader has Line >= 1 and Column >= 0, even
\* though the column counter is reset to -1 at the start of each Next.
C33_PositionRange == Err.ParseError => (Err.Line >= 1 /\ Err.Column >= 0)

\* an error at the first rune a call of Next reads
C33_Witness ==
    /\ calls = 1 /\ ~ret /\ rpos = 1 /\ input[1] = Ch.dot
    /\ IsParseError(Err, ErrUnexpectedCharacter)
    /\ Err.Line = 1 /\ Err.Column = column /\ column >= 0

(***************************************************************************)
(* The caller's loop "for r.Next() { ... }": Next is called until it        *)
(* returns false.  The inputs are the statements with a hole and the        *)
(* statements written around a blank node.                                  *)
(***************************************************************************)
InitLoop ==
    \/ Init
    \/ InitTerm /\ tc.kind = "blank"

NextLoop ==
    /\ calls = 0 \/ ret
    /\ NextCall

\* a step of NextLoop as the call counter shows it: Next returns on every
\* reader, so NextLoop is enabled whenever its guards hold, and every step
\* of NextLoop counts one call
LoopCall ==
    /\ calls = 0 \/ ret
    /\ calls < MaxCalls
    /\ calls' = calls + 1

\* the caller goes on calling Next as long as it returned true
SpecLoop == InitLoop /\ [][NextLoop]_vars /\ WF_calls(LoopCall)

(***************************************************************************)
(* Properties of termination.                                               *)
(***************************************************************************)

\* C34: Next terminates on every finite input: a call never moves the
\* source backwards and never reads past its end, a call that returns a
\* statement has consumed at least one rune (the unread, peek and re-read of
\* a '.' in a blank-node label included), and the calls of the caller's loop
\* eventually return false.
C34_Termination ==
    /\ [][ /\ rpos' >= rpos /\ rpos' <= Len(input)
           /\ ret' => rpos' > rpos ]_vars
    /\ <>(calls >= 1 /\ ~ret)

C34_Witness ==
    /\ tc.kind = "blank" /\ tc.pieces = << <<Ch.a>>, <<Ch.dot>> >>
    /\ tc.tail = <<Ch.dot, Ch.a, Ch.space, Ch.dot>>
    /\ calls = 2 /\ ~ret /\ Err = NilErr /\ rpos = Len(input)

(***************************************************************************)
(* Properties of the clean end of input.                                    *)
(***************************************************************************)

\* C35: whenever Next returns false and Err() is nil, the whole input has
\* been consumed and everything after the last returned statement (all the
\* input the call found unread) was only whitespace, blank lines and
\* comments: a truncated or malformed statement is never reported as a
\* clean end of input.
C35_CleanEndOnly ==
    [][(~ret' /\ Err' = NilErr) => (rpos' = Len(input) /\ WsOnly(Remaining))]_vars

(***************************************************************************)
(* Inputs of the tenth kind: a statement with one line end (\n or \r\n)     *)
(* written into it at any place, as in the negative syntax case             *)
(* "newline-in-quad".  The test case keeps the text before the line end in  *)
(* pieces, the line end in close and the text after it in tail.             *)
(***************************************************************************)
InitBreak ==
    /\ \E qd \in Statements, lay \in {"canonical", "minimal"}, eol \in {LF, CRLF} :
           \E i \in 0..Len(Layout(qd, lay)) :
               tc = [kind |-> "break",
                     pieces |-> <<SubSeq(Layout(qd, lay), 1, i)>>,
                     close |-> eol,
                     tail |-> SubSeq(Layout(qd, lay), i + 1, Len(Layout(qd, lay))),
                     cut |-> -1]
    /\ input = Concat(tc.pieces) \o tc.close \o tc.tail
    /\ quads = <<>>
    /\ NewReader

SpecBreak == InitBreak /\ [][Next]_vars

(***************************************************************************)
(* Properties of statements and lines.                                      *)
(***************************************************************************)

\* the line end of the test case stands after the first rune of the subject
\* and before the terminating '.'
BreakInStatement ==
    tc.kind = "break" /\ tc.pieces[1] # <<>> /\ tc.tail # <<>>

\* the number of double quotes in str
RECURSIVE Quotes(_)
Quotes(str) ==
    IF str = <<>> THEN 0
    ELSE (IF Head(str) = Ch.dquote THEN 1 ELSE 0) + Quotes(Tail(str))

\* C36: no statement accepted by Next spans more than one input line:
\* between the first rune of the subject and the terminating '.', a
\* successful Next never consumes a raw line feed, also not inside the
\* quotes of a literal.
C36_OneLine == (calls = 1 /\ BreakInStatement) => ~ret

(***************************************************************************)
(* Inputs of the eleventh kind: short texts of carriage returns, line       *)
(* feeds and other runes, read rune by rune with readRune as the loops of   *)
(* the lexers do: every rune returned is written to the buffer, and the     *)
(* first error is kept.                                                     *)
(***************************************************************************)
\* the longest text read rune by rune
MaxRunes == 3

RuneInputs == UNION {[1..n -> {Ch.cr, Ch.lf, Ch.a, 233}] : n \in 0..MaxRunes}

InitRunes ==
    /\ input \in RuneInputs
    /\ quads = <<>>
    /\ tc = [NoCase EXCEPT !.kind = "runes"]
    /\ NewReader

\* r1, err = r.readRune(); on an error the loop ends, else r.buf.WriteRune(r1)
ReadRuneCall ==
    /\ tc.kind = "runes"
    /\ err = NilErr
    /\ \E x \in {readRune(Cursor)} :
           /\ rpos' = x.c.rpos
           /\ lastRuneSize' = x.c.lastRuneSize
           /\ column' = x.c.column
           /\ buf' = IF x.err = nil THEN WriteRune(x.c, x.r1).buf ELSE buf
           /\ err' = IF x.err = nil THEN NilErr ELSE bare(x.err)
    /\ calls' = calls + 1
    /\ UNCHANGED <<input, line, q, ret, quads, tc>>

NextRunes == ReadRuneCall

SpecRunes == InitRunes /\ [][NextRunes]_vars

(***************************************************************************)
(* Properties of readRune.                                                  *)
(***************************************************************************)

\* a carriage return directly followed by a line feed at str[i]
IsCRLF(str, i) == i < Len(str) /\ str[i] = Ch.cr /\ str[i + 1] = Ch.lf

\* the runes of str from str[i] on with every \r\n folded to \n
RECURSIVE FoldFrom(_, _)
FoldFrom(str, i) ==
    IF i > Len(str) THEN <<>>
    ELSE IF IsCRLF(str, i) THEN <<Ch.lf>> \o FoldFrom(str, i + 2)
    ELSE <<str[i]>> \o FoldFrom(str, i + 1)

\* the number of runes of str taken by k folded runes from str[i] on
RECURSIVE RawAfter(_, _, _)
RawAfter(str, i, k) ==
    IF k = 0 \/ i > Len(str) THEN i - 1
    ELSE IF IsCRLF(str, i) THEN RawAfter(str, i + 2, k - 1)
    ELSE RawAfter(str, i + 1, k - 1)

\* C37: readRune returns a carriage return directly followed by a line feed
\* as one '\n' (one column step) and a carriage return not followed by a
\* line feed as '\r' with the following rune still unread, also when the
\* carriage return is the last rune of the input: it is returned with no
\* error before the end of the input is reported.
C37_ReadRuneFolds ==
    tc.kind = "runes" =>
        /\ Err = NilErr =>
              /\ calls <= Len(FoldFrom(input, 1))
              /\ buf = SubSeq(FoldFrom(input, 1), 1, calls)
              /\ rpos = RawAfter(input, 1, calls)
              /\ column = calls
        /\ Err # NilErr =>
              /\ Err = bare(EOF)
              /\ buf = FoldFrom(input, 1)
              /\ calls = Len(buf) + 1
              /\ rpos = Len(input)

(***************************************************************************)
(* Properties of the pushback.                                              *)
(***************************************************************************)

\* C38: every pushback the reader performs on its source directly follows a
\* successful rune read, with no pushback or peek between them, so no
\* pushback ever fails: the reader never records the error of a failed
\* UnreadRune, and no term of a returned statement is the empty term that
\* parseBlankNode returns when its pushback fails.
C38_PushbackDiscipline ==
    /\ Err.Err # ErrInvalidUnreadRune
    /\ ret => (Quad.S # ZeroTerm /\ Quad.P # ZeroTerm /\ Quad.O # ZeroTerm)

(***************************************************************************)
(* Two readings of one text: a reader is run on a text until Next returns   *)
(* false and the result of every call is kept; then a second reader is run  *)
(* on the same text with every line feed replaced by carriage return + line *)
(* feed.  The test case keeps the results of the first reading in pieces    *)
(* and the first text in tail.                                              *)
(***************************************************************************)

\* str with every line feed replaced by carriage return + line feed
RECURSIVE WithCRLF(_)
WithCRLF(str) ==
    IF str = <<>> THEN <<>>
    ELSE (IF Head(str) = Ch.lf THEN CRLF ELSE <<Head(str)>>) \o WithCRLF(Tail(str))

\* what a caller sees after a call of Next that left the reader with error
\* e and quad qq and returned result: the result, Quad(), and the kind and
\* column of Err()
Seen(e, qq, result) ==
    [ret |-> result, q |-> qq, kind |-> e.Err, column |-> e.Column]

InitEol ==
    /\ input \in HoleInputs
    /\ quads = <<>>
    /\ tc = [NoCase EXCEPT !.kind = "lf"]
    /\ NewReader

\* one call of Next of the first reading; its result is kept
NextKept ==
    /\ tc.kind = "lf"
    /\ calls = 0 \/ ret
    /\ calls < MaxCalls
    /\ \E n \in {ReaderNext(Cursor, err, q)} :
           /\ rpos' = n.c.rpos
           /\ lastRuneSize' = n.c.lastRuneSize
           /\ line' = n.c.line
           /\ column' = n.c.column
           /\ buf' = n.c.buf
           /\ err' = n.err
           /\ q' = n.q
           /\ ret' = n.ret
           /\ tc' = [tc EXCEPT !.pieces = Append(@, Seen(n.err, n.q, n.ret))]
    /\ calls' = calls + 1
    /\ UNCHANGED <<input, quads>>

\* after the first reading has ended: NewReader on the text with \r\n
Reread ==
    /\ tc.kind = "lf"
    /\ calls >= 1
    /\ ~ret
    /\ tc' = [tc EXCEPT !.kind = "crlf", !.tail = input]
    /\ input' = WithCRLF(input)
    /\ rpos' = 0
    /\ lastRuneSize' = -1
    /\ line' = 0
    /\ column' = 0
    /\ buf' = <<>>
    /\ err' = NilErr
    /\ q' = ZeroQuad
    /\ ret' = FALSE
    /\ calls' = 0
    /\ UNCHANGED quads

\* one call of Next of the second reading, for every call of the first
NextAgain ==
    /\ tc.kind = "crlf"
    /\ calls < Len(tc.pieces)
    /\ NextCall

NextEol == NextKept \/ Reread \/ NextAgain

SpecEol == InitEol /\ [][NextEol]_vars

(***************************************************************************)
(* Properties of the line ends.                                             *)
(***************************************************************************)

\* a line feed of str is directly preceded by a carriage return
HasCRLF(str) == \E i \in 1..(Len(str) - 1) : IsCRLF(str, i)

\* the call just made by the second reading gave what the same call of the
\* first reading gave
SameAsKept == Seen(Err, Quad, ret) = tc.pieces[calls]

\* C39 as stated: for every input, replacing each line feed by carriage
\* return + line feed gives the same sequence of Next results, the same
\* quads and the same error kind and column.
C39_EveryInput == (tc.kind = "crlf" /\ calls >= 1) => SameAsKept

\* C39: for every input in which no line feed is directly preceded by a
\* carriage return, replacing each line feed by carriage return + line feed
\* gives the same sequence of Next results, the same quads and the same
\* error kind and column, also when the line end directly follows the '.'
\* after a blank-node label.
C39_LineEndIndependence ==
    (tc.kind = "crlf" /\ calls >= 1 /\ ~HasCRLF(tc.tail)) => SameAsKept

C39_Witness ==
    /\ tc.kind = "crlf" /\ calls = 2 /\ ret
    /\ tc.tail = TermsPrefix(IriTerms, 2) \o Term_String(Blank(<<Ch.b>>)) \o <<Ch.dot>>
                     \o LF \o Quad_String(BaseQuad) \o LF
    /\ input = TermsPrefix(IriTerms, 2) \o Term_String(Blank(<<Ch.b>>)) \o <<Ch.dot>>
                     \o CRLF \o Quad_String(BaseQuad) \o CRLF
    /\ Len(tc.pieces) = 3
    /\ tc.pieces[1].q.O = Blank(<<Ch.b>>)
    /\ Quad = BaseQuad

====
